---- MODULE Spec2Model ----
(***************************************************************************)
(* Client-side resolution of one remote job (a Prediction) of the          *)
(* replicate client library: Prediction.wait, Prediction.output_iterator,  *)
(* Prediction.cancel (src/replicate/prediction.py) and Version.predict     *)
(* (src/replicate/version.py), run against a remote job whose lifecycle    *)
(* follows the job state machine of the specification.                     *)
(***************************************************************************)
EXTENDS Integers, Sequences, FiniteSets, TLC

(* ------------------------------ bounds --------------------------------- *)

\* Largest number of elements the remote job appends to its output.
MaxOut == 3

\* The observation counters (reloads, nonTermObs) stop counting here.  They
\* are history variables: the polling loops themselves have no bound.
MaxPolls == 3

\* Largest number of cancellation requests issued in one behaviour.
MaxCancels == 1

\* Largest number of elements the second job's output holds.
MaxOut2 == 2

\* Largest number of lines in a log text handed to the progress parser.
MaxLines == 3

\* Largest number of reads of the progress property that are counted.
MaxReads == 2

(* ------------------------------ values --------------------------------- *)

\* Python's None for the string-valued fields (error) and for "no value".
None == "None"

\* The statuses of the job state machine; "none" is "no job created yet".
NonTerminalStates == {"starting", "processing"}

\* The terminal statuses of the job state machine.
TerminalStates == {"succeeded", "failed", "canceled"}

\* Error texts a failed job may carry.
ErrTexts == {"e1", "e2"}

\* An Optional[list]: none = TRUE is Python's None, otherwise items is the list.
NoneOut == [none |-> TRUE, items |-> << >>]

ListOut(s) == [none |-> FALSE, items |-> s]

\* What output_iterator's local `output` is bound to: a list (the output read
\* in a cycle), or one element of it (the loop variable of the final for).
LocalList(s) == [elem |-> FALSE, items |-> s, value |-> 0]

LocalElem(e) == [elem |-> TRUE, items |-> << >>, value |-> e]

\* Prediction.id of the job.
JobId == "p1"

\* Prediction.version: absent from the record (the key was deleted), or a
\* Version object, or (as an argument of create) a version id string or None.
NoVersion == [kind |-> "absent", id |-> None]

\* No creation request sent.
NoBody == [sent |-> FALSE, version |-> None, input |-> None, webhook |-> "absent",
           webhook_completed |-> "absent", webhook_events_filter |-> "absent",
           stream |-> "absent"]

\* predictions.create not called.
NoArgs == [called |-> FALSE, version |-> NoVersion, input |-> None,
           webhook |-> None, webhook_completed |-> None,
           webhook_events_filter |-> None, stream |-> None]

\* Prediction.logs is None.
NoLogs == [none |-> TRUE, text |-> << >>]

\* The progress property has not been read; reads counts the reads made.
\* percentage is the quotient int / 100.0, kept as <<numerator, denominator>>.
NoProgress ==
    [reads |-> 0, none |-> TRUE, percentage |-> <<0, 100>>, current |-> 0, total |-> 0,
     raises |-> "none"]

\* No exception raised.
NoRaise == [kind |-> "none", text |-> None]

\* The schemas a Version may carry: openapi_schema itself may be None, and each
\* level of components.schemas.Output.type may be absent ("absent" type: the
\* Output entry has no "type" key).
TypeVals == {"absent", "array", "string"}

Schemas ==
    { s \in [isNone : BOOLEAN, components : BOOLEAN, schemas : BOOLEAN,
             Output : BOOLEAN, type : TypeVals] :
        /\ (s.isNone => ~s.components)
        /\ (s.schemas => s.components)
        /\ (s.Output => s.schemas)
        /\ (~s.Output => s.type = "absent") }

NoSchema == [isNone |-> TRUE, components |-> FALSE, schemas |-> FALSE,
             Output |-> FALSE, type |-> "absent"]

(* ------------------------------ state ---------------------------------- *)

VARIABLES
    srvStatus,        \* the remote job: status ("none" before creation)
    srvOutput,        \* the remote job: output
    srvError,         \* the remote job: error
    status,           \* Prediction.status of the local record
    output,           \* Prediction.output of the local record
    error,            \* Prediction.error of the local record
    pc,               \* position of the caller
    caller,           \* who entered the wait loop: "user" or "predict"
    schema,           \* Version.openapi_schema of the version being run
    mode,             \* what Version.predict chose: "incremental" / "atomic"
    previous_output,  \* output_iterator's local previous_output
    cur_output,       \* output_iterator's local output (the element, in the final for)
    new_output,       \* output_iterator's local new_output still to be yielded
    yielded,          \* history: the elements the iterator has yielded
    raised,           \* the exception that ended the call, if any
    result,           \* the value Version.predict returned
    startLen,         \* history: len(output or []) when iteration began
    reloads,          \* history: reloads performed by the running loop
    nonTermObs,       \* history: loop tests that saw a non-terminal status
    startStatus,      \* history: the status the running loop started with
    cancelReqs,       \* history: cancellation requests sent
    prevStatus,       \* history: the status the record held before its last refresh
    lastCancelId,     \* history: the job id in the path of the last cancellation request
    cancelCalls,      \* history: calls of Prediction.cancel made by the caller
    version,          \* Prediction.version of the local record
    body,             \* the JSON body of the creation request sent, if any
    args,             \* history: the arguments predictions.create was called with
    srv2Status,       \* a second remote job: status
    srv2Output,       \* a second remote job: output
    status2,          \* Prediction.status of the second job's local record
    output2,          \* Prediction.output of the second job's local record
    pc2,              \* position of the second job's caller
    logs,             \* Prediction.logs handed to the progress parser
    progress,         \* what Prediction.progress returned
    sseStream,        \* the bytes of an event stream, as the server sends them
    ssePos,           \* how many of them the transport has delivered
    sseBuf,           \* SSE decoder: the partial line buffered across chunks
    sseAcc,           \* SSE decoder: the event being accumulated
    sseEvents,        \* the events delivered to the consumer, in order
    sseState,         \* "open", "done" (done event seen) or "ended" (stream ended)
    runIdent,         \* the identifier run was called with
    netReqs,          \* history: requests run has issued to the transport
    trArgs,           \* history: the arguments trainings.create was called with
    trBody,           \* the training creation request sent, if any
    trRaised,         \* the exception trainings.create raised, if any
    trStatus          \* Training.status of the record trainings.create returned

srvVars == <<srvStatus, srvOutput, srvError>>
recVars == <<status, output, error>>
iterVars == <<previous_output, cur_output, new_output, yielded, startLen>>
cntVars == <<reloads, nonTermObs, startStatus>>
createVars == <<version, body, args>>
job2Vars == <<srv2Status, srv2Output, status2, output2, pc2>>
progVars == <<logs, progress>>
sseVars == <<sseStream, ssePos, sseBuf, sseAcc, sseEvents, sseState>>
runVars == <<runIdent, netReqs>>
trainVars == <<trArgs, trBody, trRaised, trStatus>>
restVars == <<createVars, job2Vars, progVars, sseVars, runVars, trainVars>>
cancelVars == <<lastCancelId, cancelCalls>>
extVars == <<prevStatus, cancelVars, restVars>>
vars == <<srvStatus, srvOutput, srvError, status, output, error, pc, caller,
          schema, mode, previous_output, cur_output, new_output, yielded,
          raised, result, startLen, reloads, nonTermObs, startStatus,
          cancelReqs, extVars>>

(* --------------------------- pure helpers ------------------------------ *)

\* `x or []` for an Optional[list] x.
OrEmpty(o) == IF o.none \/ o.items = << >> THEN << >> ELSE o.items

\* s[n:] for a list s and n >= 0.
SliceFrom(s, n) == IF n >= Len(s) THEN << >> ELSE SubSeq(s, n + 1, Len(s))

\* Faulty variant: every status but the two documented non-terminal ones ends
\* the loops.
IsTerminal_allButDocumented(s) == s \notin {"starting", "processing"}

\* status in ["succeeded", "failed", "canceled"]
IsTerminal_alsoProcessing(s) == s \in {"succeeded", "failed", "canceled", "processing"}

IsTerminal(s) == s \in {"succeeded", "failed", "canceled"}

\* A history counter, incremented up to MaxPolls.
Count(n) == IF n < MaxPolls THEN n + 1 ELSE n

\* self.openapi_schema["components"]["schemas"]["Output"].get("type") == "array"
\* evaluated left to right: subscripting None is a TypeError, a missing key a
\* KeyError, a missing "type" is None (not "array").
SelectMode_stringToo(s) ==
    IF s.isNone THEN "TypeError"
    ELSE IF ~s.components \/ ~s.schemas \/ ~s.Output THEN "KeyError"
    ELSE IF s.type \in {"array", "string"} THEN "incremental"
    ELSE "atomic"

SelectMode(s) ==
    IF s.isNone THEN "TypeError"
    ELSE IF ~s.components \/ ~s.schemas \/ ~s.Output THEN "KeyError"
    ELSE IF s.type = "array" THEN "incremental"
    ELSE "atomic"

(* ------------------------- progress parsing ---------------------------- *)

\* Strings are sequences of one-character strings; a character outside
\* ASCII, and a control character without an escape, is written as its code
\* point, "U+0663".

\* The decimal digits of Unicode (category Nd), which \d of a str pattern
\* matches and int() converts: Digits[d] holds the characters of value d - 1.
Digits ==
  <<{"0", "U+0660", "U+06F0", "U+07C0", "U+0966", "U+09E6", "U+0A66",
      "U+0AE6", "U+0B66", "U+0BE6", "U+0C66", "U+0CE6", "U+0D66", "U+0DE6",
      "U+0E50", "U+0ED0", "U+0F20", "U+1040", "U+1090", "U+17E0", "U+1810",
      "U+1946", "U+19D0", "U+1A80", "U+1A90", "U+1B50", "U+1BB0", "U+1C40",
      "U+1C50", "U+A620", "U+A8D0", "U+A900", "U+A9D0", "U+A9F0", "U+AA50",
      "U+ABF0", "U+FF10", "U+104A0", "U+10D30", "U+11066", "U+110F0",
      "U+11136", "U+111D0", "U+112F0", "U+11450", "U+114D0", "U+11650",
      "U+116C0", "U+11730", "U+118E0", "U+11950", "U+11C50", "U+11D50",
      "U+11DA0", "U+16A60", "U+16AC0", "U+16B50", "U+1D7CE", "U+1D7D8",
      "U+1D7E2", "U+1D7EC", "U+1D7F6", "U+1E140", "U+1E2F0", "U+1E950",
      "U+1FBF0"},
     {"1", "U+0661", "U+06F1", "U+07C1", "U+0967", "U+09E7", "U+0A67",
      "U+0AE7", "U+0B67", "U+0BE7", "U+0C67", "U+0CE7", "U+0D67", "U+0DE7",
      "U+0E51", "U+0ED1", "U+0F21", "U+1041", "U+1091", "U+17E1", "U+1811",
      "U+1947", "U+19D1", "U+1A81", "U+1A91", "U+1B51", "U+1BB1", "U+1C41",
      "U+1C51", "U+A621", "U+A8D1", "U+A901", "U+A9D1", "U+A9F1", "U+AA51",
      "U+ABF1", "U+FF11", "U+104A1", "U+10D31", "U+11067", "U+110F1",
      "U+11137", "U+111D1", "U+112F1", "U+11451", "U+114D1", "U+11651",
      "U+116C1", "U+11731", "U+118E1", "U+11951", "U+11C51", "U+11D51",
      "U+11DA1", "U+16A61", "U+16AC1", "U+16B51", "U+1D7CF", "U+1D7D9",
      "U+1D7E3", "U+1D7ED", "U+1D7F7", "U+1E141", "U+1E2F1", "U+1E951",
      "U+1FBF1"},
     {"2", "U+0662", "U+06F2", "U+07C2", "U+0968", "U+09E8", "U+0A68",
      "U+0AE8", "U+0B68", "U+0BE8", "U+0C68", "U+0CE8", "U+0D68", "U+0DE8",
      "U+0E52", "U+0ED2", "U+0F22", "U+1042", "U+1092", "U+17E2", "U+1812",
      "U+1948", "U+19D2", "U+1A82", "U+1A92", "U+1B52", "U+1BB2", "U+1C42",
      "U+1C52", "U+A622", "U+A8D2", "U+A902", "U+A9D2", "U+A9F2", "U+AA52",
      "U+ABF2", "U+FF12", "U+104A2", "U+10D32", "U+11068", "U+110F2",
      "U+11138", "U+111D2", "U+112F2", "U+11452", "U+114D2", "U+11652",
      "U+116C2", "U+11732", "U+118E2", "U+11952", "U+11C52", "U+11D52",
      "U+11DA2", "U+16A62", "U+16AC2", "U+16B52", "U+1D7D0", "U+1D7DA",
      "U+1D7E4", "U+1D7EE", "U+1D7F8", "U+1E142", "U+1E2F2", "U+1E952",
      "U+1FBF2"},
     {"3", "U+0663", "U+06F3", "U+07C3", "U+0969", "U+09E9", "U+0A69",
      "U+0AE9", "U+0B69", "U+0BE9", "U+0C69", "U+0CE9", "U+0D69", "U+0DE9",
      "U+0E53", "U+0ED3", "U+0F23", "U+1043", "U+1093", "U+17E3", "U+1813",
      "U+1949", "U+19D3", "U+1A83", "U+1A93", "U+1B53", "U+1BB3", "U+1C43",
      "U+1C53", "U+A623", "U+A8D3", "U+A903", "U+A9D3", "U+A9F3", "U+AA53",
      "U+ABF3", "U+FF13", "U+104A3", "U+10D33", "U+11069", "U+110F3",
      "U+11139", "U+111D3", "U+112F3", "U+11453", "U+114D3", "U+11653",
      "U+116C3", "U+11733", "U+118E3", "U+11953", "U+11C53", "U+11D53",
      "U+11DA3", "U+16A63", "U+16AC3", "U+16B53", "U+1D7D1", "U+1D7DB",
      "U+1D7E5", "U+1D7EF", "U+1D7F9", "U+1E143", "U+1E2F3", "U+1E953",
      "U+1FBF3"},
     {"4", "U+0664", "U+06F4", "U+07C4", "U+096A", "U+09EA", "U+0A6A",
      "U+0AEA", "U+0B6A", "U+0BEA", "U+0C6A", "U+0CEA", "U+0D6A", "U+0DEA",
      "U+0E54", "U+0ED4", "U+0F24", "U+1044", "U+1094", "U+17E4", "U+1814",
      "U+194A", "U+19D4", "U+1A84", "U+1A94", "U+1B54", "U+1BB4", "U+1C44",
      "U+1C54", "U+A624", "U+A8D4", "U+A904", "U+A9D4", "U+A9F4", "U+AA54",
      "U+ABF4", "U+FF14", "U+104A4", "U+10D34", "U+1106A", "U+110F4",
      "U+1113A", "U+111D4", "U+112F4", "U+11454", "U+114D4", "U+11654",
      "U+116C4", "U+11734", "U+118E4", "U+11954", "U+11C54", "U+11D54",
      "U+11DA4", "U+16A64", "U+16AC4", "U+16B54", "U+1D7D2", "U+1D7DC",
      "U+1D7E6", "U+1D7F0", "U+1D7FA", "U+1E144", "U+1E2F4", "U+1E954",
      "U+1FBF4"},
     {"5", "U+0665", "U+06F5", "U+07C5", "U+096B", "U+09EB", "U+0A6B",
      "U+0AEB", "U+0B6B", "U+0BEB", "U+0C6B", "U+0CEB", "U+0D6B", "U+0DEB",
      "U+0E55", "U+0ED5", "U+0F25", "U+1045", "U+1095", "U+17E5", "U+1815",
      "U+194B", "U+19D5", "U+1A85", "U+1A95", "U+1B55", "U+1BB5", "U+1C45",
      "U+1C55", "U+A625", "U+A8D5", "U+A905", "U+A9D5", "U+A9F5", "U+AA55",
      "U+ABF5", "U+FF15", "U+104A5", "U+10D35", "U+1106B", "U+110F5",
      "U+1113B", "U+111D5", "U+112F5", "U+11455", "U+114D5", "U+11655",
      "U+116C5", "U+11735", "U+118E5", "U+11955", "U+11C55", "U+11D55",
      "U+11DA5", "U+16A65", "U+16AC5", "U+16B55", "U+1D7D3", "U+1D7DD",
      "U+1D7E7", "U+1D7F1", "U+1D7FB", "U+1E145", "U+1E2F5", "U+1E955",
      "U+1FBF5"},
     {"6", "U+0666", "U+06F6", "U+07C6", "U+096C", "U+09EC", "U+0A6C",
      "U+0AEC", "U+0B6C", "U+0BEC", "U+0C6C", "U+0CEC", "U+0D6C", "U+0DEC",
      "U+0E56", "U+0ED6", "U+0F26", "U+1046", "U+1096", "U+17E6", "U+1816",
      "U+194C", "U+19D6", "U+1A86", "U+1A96", "U+1B56", "U+1BB6", "U+1C46",
      "U+1C56", "U+A626", "U+A8D6", "U+A906", "U+A9D6", "U+A9F6", "U+AA56",
      "U+ABF6", "U+FF16", "U+104A6", "U+10D36", "U+1106C", "U+110F6",
      "U+1113C", "U+111D6", "U+112F6", "U+11456", "U+114D6", "U+11656",
      "U+116C6", "U+11736", "U+118E6", "U+11956", "U+11C56", "U+11D56",
      "U+11DA6", "U+16A66", "U+16AC6", "U+16B56", "U+1D7D4", "U+1D7DE",
      "U+1D7E8", "U+1D7F2", "U+1D7FC", "U+1E146", "U+1E2F6", "U+1E956",
      "U+1FBF6"},
     {"7", "U+0667", "U+06F7", "U+07C7", "U+096D", "U+09ED", "U+0A6D",
      "U+0AED", "U+0B6D", "U+0BED", "U+0C6D", "U+0CED", "U+0D6D", "U+0DED",
      "U+0E57", "U+0ED7", "U+0F27", "U+1047", "U+1097", "U+17E7", "U+1817",
      "U+194D", "U+19D7", "U+1A87", "U+1A97", "U+1B57", "U+1BB7", "U+1C47",
      "U+1C57", "U+A627", "U+A8D7", "U+A907", "U+A9D7", "U+A9F7", "U+AA57",
      "U+ABF7", "U+FF17", "U+104A7", "U+10D37", "U+1106D", "U+110F7",
      "U+1113D", "U+111D7", "U+112F7", "U+11457", "U+114D7", "U+11657",
      "U+116C7", "U+11737", "U+118E7", "U+11957", "U+11C57", "U+11D57",
      "U+11DA7", "U+16A67", "U+16AC7", "U+16B57", "U+1D7D5", "U+1D7DF",
      "U+1D7E9", "U+1D7F3", "U+1D7FD", "U+1E147", "U+1E2F7", "U+1E957",
      "U+1FBF7"},
     {"8", "U+0668", "U+06F8", "U+07C8", "U+096E", "U+09EE", "U+0A6E",
      "U+0AEE", "U+0B6E", "U+0BEE", "U+0C6E", "U+0CEE", "U+0D6E", "U+0DEE",
      "U+0E58", "U+0ED8", "U+0F28", "U+1048", "U+1098", "U+17E8", "U+1818",
      "U+194E", "U+19D8", "U+1A88", "U+1A98", "U+1B58", "U+1BB8", "U+1C48",
      "U+1C58", "U+A628", "U+A8D8", "U+A908", "U+A9D8", "U+A9F8", "U+AA58",
      "U+ABF8", "U+FF18", "U+104A8", "U+10D38", "U+1106E", "U+110F8",
      "U+1113E", "U+111D8", "U+112F8", "U+11458", "U+114D8", "U+11658",
      "U+116C8", "U+11738", "U+118E8", "U+11958", "U+11C58", "U+11D58",
      "U+11DA8", "U+16A68", "U+16AC8", "U+16B58", "U+1D7D6", "U+1D7E0",
      "U+1D7EA", "U+1D7F4", "U+1D7FE", "U+1E148", "U+1E2F8", "U+1E958",
      "U+1FBF8"},
     {"9", "U+0669", "U+06F9", "U+07C9", "U+096F", "U+09EF", "U+0A6F",
      "U+0AEF", "U+0B6F", "U+0BEF", "U+0C6F", "U+0CEF", "U+0D6F", "U+0DEF",
      "U+0E59", "U+0ED9", "U+0F29", "U+1049", "U+1099", "U+17E9", "U+1819",
      "U+194F", "U+19D9", "U+1A89", "U+1A99", "U+1B59", "U+1BB9", "U+1C49",
      "U+1C59", "U+A629", "U+A8D9", "U+A909", "U+A9D9", "U+A9F9", "U+AA59",
      "U+ABF9", "U+FF19", "U+104A9", "U+10D39", "U+1106F", "U+110F9",
      "U+1113F", "U+111D9", "U+112F9", "U+11459", "U+114D9", "U+11659",
      "U+116C9", "U+11739", "U+118E9", "U+11959", "U+11C59", "U+11D59",
      "U+11DA9", "U+16A69", "U+16AC9", "U+16B59", "U+1D7D7", "U+1D7E1",
      "U+1D7EB", "U+1D7F5", "U+1D7FF", "U+1E149", "U+1E2F9", "U+1E959",
      "U+1FBF9"}>>

IsDigit(ch) == \E d \in 1..10 : ch \in Digits[d]

\* int() of one decimal digit.
DigitVal(ch) == (CHOOSE d \in 1..10 : ch \in Digits[d]) - 1

\* The white space of Unicode: \s of a str pattern and the characters
\* str.strip() removes.
WhiteSpace ==
    {"\t", "\n", "U+000B", "\f", "\r", "U+001C", "U+001D", "U+001E", "U+001F",
     " ", "U+0085", "U+00A0", "U+1680", "U+2000", "U+2001", "U+2002", "U+2003",
     "U+2004", "U+2005", "U+2006", "U+2007", "U+2008", "U+2009", "U+200A",
     "U+2028", "U+2029", "U+202F", "U+205F", "U+3000"}

IsSpace(ch) == ch \in WhiteSpace

\* Log lines as they appear in the logs of a prediction.
LineSeed == <<"s", "e", "e", "d", " ", "4">>

LineZero == <<"0", "%", "|", "#", "|", "0", "/", "5">>

LineIndented == <<" ", "2", "0", "%", "|", "#", "#", "|", "1", "/", "5", " ", "x">>

LineOver == <<"1", "5", "0", "%", "|", "#", "|", "7", "/", "5">>

LineNoBar == <<"2", "0", "%", "|", "|", "1", "/", "5">>

LineSpaced == <<"4", "0", "%", " ", "|", "#", "|", " ", "2", "/", "5", " ">>

LineNotAtStart == <<"x", " ", "6", "0", "%", "|", "#", "|", "3", "/", "5">>

LineDone == <<"1", "0", "0", "%", "|", "#", "#", "|", "1", "0", "/", "1", "0">>

\* A line whose digits are Arabic-Indic and whose white space is a form feed,
\* a vertical tab and a unit separator.
LineUnicode ==
    <<"\f", "U+0663", "U+0660", "%", "U+000B", "|", "#", "|", "U+001F", "U+0661",
      "/", "U+0665">>

\* The digits int() converts from a string before it raises ValueError: the
\* interpreter's limit on integer string conversion, leading zeros counted.
MaxStrDigits == 4300

\* A line whose current count has one digit more than int() converts.
LineLongRun ==
    <<"5", "%", "|", "#", "|">> \o [i \in 1..(MaxStrDigits + 1) |-> "9"]
                                \o <<"/", "5">>

\* A line whose percentage is 10^309.
LineHugePercent ==
    <<"1">> \o [i \in 1..309 |-> "0"] \o <<"%", "|", "#", "|", "1", "/", "5">>

SampleLines ==
    {<< >>, LineLongRun, LineHugePercent, LineSeed, LineZero, LineIndented, LineOver, LineNoBar, LineSpaced,
     LineNotAtStart, LineDone, LineUnicode}

RECURSIVE JoinLines(_)
\* "\n".join(ls)
JoinLines(ls) ==
    IF ls = << >> THEN << >>
    ELSE IF Len(ls) = 1 THEN ls[1]
    ELSE ls[1] \o <<"\n">> \o JoinLines(Tail(ls))

\* The values of Prediction.logs: None, or a text of up to MaxLines lines.
LogTexts ==
    {NoLogs} \cup
    {[none |-> FALSE, text |-> JoinLines(ls)] :
        ls \in UNION {[1..n -> SampleLines] : n \in 1..MaxLines}}

RECURSIVE Split(_)
\* logs.split("\n"): the text between the newlines, the empty text giving
\* one empty line.
Split(s) ==
    IF \A i \in 1..Len(s) : s[i] # "\n" THEN <<s>>
    ELSE LET k == CHOOSE i \in 1..Len(s) :
                      s[i] = "\n" /\ \A j \in 1..(i - 1) : s[j] # "\n"
         IN  <<SubSeq(s, 1, k - 1)>> \o Split(SubSeq(s, k + 1, Len(s)))

RECURSIVE Strip(_)
\* line.strip()
Strip(s) ==
    IF s = << >> THEN s
    ELSE IF IsSpace(s[1]) THEN Strip(Tail(s))
    ELSE IF IsSpace(s[Len(s)]) THEN Strip(SubSeq(s, 1, Len(s) - 1))
    ELSE s

RECURSIVE SkipSpace(_, _)
\* \s* from position i: the first position at or after i holding no space.
SkipSpace(s, i) ==
    IF i <= Len(s) /\ IsSpace(s[i]) THEN SkipSpace(s, i + 1) ELSE i

\* \d+ from position i: the first position at or after i holding no digit.
DigitsEnd(s, i) ==
    IF i > Len(s) THEN i
    ELSE IF \A k \in i..Len(s) : IsDigit(s[k]) THEN Len(s) + 1
    ELSE CHOOSE k \in i..Len(s) :
             ~IsDigit(s[k]) /\ \A j \in i..(k - 1) : IsDigit(s[j])

RECURSIVE ToInt(_)
\* int() of a run of decimal digits.
ToInt(ds) ==
    IF ds = << >> THEN 0
    ELSE 10 * ToInt(SubSeq(ds, 1, Len(ds) - 1)) + DigitVal(ds[Len(ds)])

\* \|\s*(?P<current>\d+)\/(?P<total>\d+) matches at position j.
TailMatches(s, j) ==
    /\ j <= Len(s)
    /\ s[j] = "|"
    /\ LET c == SkipSpace(s, j + 1)
           e == DigitsEnd(s, c)
       IN  /\ e > c
           /\ e <= Len(s)
           /\ s[e] = "/"
           /\ DigitsEnd(s, e + 1) > e + 1

\* Where ^\s*(?P<percentage>\d+)%\s*\| ends in s: the position of the bar's
\* opening "|", or 0 when the head does not match.
HeadEnd(s) ==
    LET i == SkipSpace(s, 1)
        p == DigitsEnd(s, i)
    IN  IF p > i /\ p <= Len(s) /\ s[p] = "%"
        THEN LET q == SkipSpace(s, p + 1)
             IN  IF q <= Len(s) /\ s[q] = "|" THEN q ELSE 0
        ELSE 0

\* The positions at which the lazy .+? can end: at least one character after
\* the opening "|", followed by the tail of the pattern.
BarEnds(s) ==
    IF HeadEnd(s) = 0 THEN {}
    ELSE {j \in (HeadEnd(s) + 2)..Len(s) : TailMatches(s, j)}

\* _pattern.match(line)
Matches(s) == BarEnds(s) # {}

\* _pattern.findall(line): the pattern is anchored at the start of the
\* string, so a matching line has exactly one match.
FindallLen(s) == IF Matches(s) THEN 1 ELSE 0

\* The three groups of the match: .+? stops at the first position that lets
\* the rest match; the \d+ groups take the whole run of digits.
Groups(s) ==
    LET i == SkipSpace(s, 1)
        p == DigitsEnd(s, i)
        j == CHOOSE x \in BarEnds(s) : \A y \in BarEnds(s) : x <= y
        c == SkipSpace(s, j + 1)
        e == DigitsEnd(s, c)
        f == DigitsEnd(s, e + 1)
    IN  [percentage |-> ToInt(SubSeq(s, i, p - 1)),
         current |-> ToInt(SubSeq(s, c, e - 1)),
         total |-> ToInt(SubSeq(s, e + 1, f - 1))]

\* cls(percentage / 100.0, current, total)
ProgressValue(g) ==
    [none |-> FALSE, percentage |-> <<g.percentage, 100>>,
     current |-> g.current, total |-> g.total, raises |-> "none"]

\* return None
ProgressNone ==
    [none |-> TRUE, percentage |-> <<0, 100>>, current |-> 0, total |-> 0,
     raises |-> "none"]

\* The call ends in an exception instead of a return value.
ProgressRaises(kind) == [ProgressNone EXCEPT !.raises = kind]

\* The decimal digits of the least integer that int / float cannot convert
\* to a float (OverflowError): 2^1024 - 2^970.
FloatOverflowFrom ==
    <<1, 7, 9, 7, 6, 9, 3, 1, 3, 4, 8, 6, 2, 3, 1, 5, 8, 0, 7, 9, 3, 7, 2, 8,
       9, 7, 1, 4, 0, 5, 3, 0, 3, 4, 1, 5, 0, 7, 9, 9, 3, 4, 1, 3, 2, 7, 1, 0,
       0, 3, 7, 8, 2, 6, 9, 3, 6, 1, 7, 3, 7, 7, 8, 9, 8, 0, 4, 4, 4, 9, 6, 8,
       2, 9, 2, 7, 6, 4, 7, 5, 0, 9, 4, 6, 6, 4, 9, 0, 1, 7, 9, 7, 7, 5, 8, 7,
       2, 0, 7, 0, 9, 6, 3, 3, 0, 2, 8, 6, 4, 1, 6, 6, 9, 2, 8, 8, 7, 9, 1, 0,
       9, 4, 6, 5, 5, 5, 5, 4, 7, 8, 5, 1, 9, 4, 0, 4, 0, 2, 6, 3, 0, 6, 5, 7,
       4, 8, 8, 6, 7, 1, 5, 0, 5, 8, 2, 0, 6, 8, 1, 9, 0, 8, 9, 0, 2, 0, 0, 0,
       7, 0, 8, 3, 8, 3, 6, 7, 6, 2, 7, 3, 8, 5, 4, 8, 4, 5, 8, 1, 7, 7, 1, 1,
       5, 3, 1, 7, 6, 4, 4, 7, 5, 7, 3, 0, 2, 7, 0, 0, 6, 9, 8, 5, 5, 5, 7, 1,
       3, 6, 6, 9, 5, 9, 6, 2, 2, 8, 4, 2, 9, 1, 4, 8, 1, 9, 8, 6, 0, 8, 3, 4,
       9, 3, 6, 4, 7, 5, 2, 9, 2, 7, 1, 9, 0, 7, 4, 1, 6, 8, 4, 4, 4, 3, 6, 5,
       5, 1, 0, 7, 0, 4, 3, 4, 2, 7, 1, 1, 5, 5, 9, 6, 9, 9, 5, 0, 8, 0, 9, 3,
       0, 4, 2, 8, 8, 0, 1, 7, 7, 9, 0, 4, 1, 7, 4, 4, 9, 7, 7, 9, 2>>

\* The digit values of a run of digits, without its leading zeros.
StripZeros(ds) ==
    LET zeros == IF \A k \in 1..Len(ds) : DigitVal(ds[k]) = 0 THEN Len(ds)
                 ELSE (CHOOSE k \in 1..Len(ds) :
                          DigitVal(ds[k]) # 0 /\ \A j \in 1..(k - 1) : DigitVal(ds[j]) = 0)
                      - 1
    IN  [i \in 1..(Len(ds) - zeros) |-> DigitVal(ds[zeros + i])]

\* a >= b for two integers given by their digit values, no leading zeros.
GeqDigits(a, b) ==
    \/ Len(a) > Len(b)
    \/ /\ Len(a) = Len(b)
       /\ \/ \A i \in 1..Len(a) : a[i] = b[i]
          \/ \E i \in 1..Len(a) :
                /\ a[i] > b[i]
                /\ \A j \in 1..(i - 1) : a[j] = b[j]

\* The three groups of the match as the text matched.
GroupRuns(s) ==
    LET i == SkipSpace(s, 1)
        p == DigitsEnd(s, i)
        j == CHOOSE x \in BarEnds(s) : \A y \in BarEnds(s) : x <= y
        c == SkipSpace(s, j + 1)
        e == DigitsEnd(s, c)
        f == DigitsEnd(s, e + 1)
    IN  [percentage |-> SubSeq(s, i, p - 1),
         current |-> SubSeq(s, c, e - 1),
         total |-> SubSeq(s, e + 1, f - 1)]

\* percentage, current, total = map(int, matches[0]);
\* return cls(percentage / 100.0, current, total): ValueError when a group
\* has more digits than int() converts, OverflowError when the percentage is
\* too large for a float, else the Progress value.
Convert(s) ==
    LET r == GroupRuns(s)
    IN  IF \/ Len(r.percentage) > MaxStrDigits
           \/ Len(r.current) > MaxStrDigits
           \/ Len(r.total) > MaxStrDigits
        THEN ProgressRaises("ValueError")
        ELSE IF GeqDigits(StripZeros(r.percentage), FloatOverflowFrom)
        THEN ProgressRaises("OverflowError")
        ELSE ProgressValue(Groups(s))

RECURSIVE ParseFrom_firstMatch(_, _)
RECURSIVE ParseFrom(_, _)

\* Faulty variant: the lines are scanned from the first to the last.
ParseFrom_firstMatch(lines, i) ==
    IF lines = << >> THEN ProgressNone
    ELSE LET line == Strip(Head(lines))
         IN  IF Matches(line) /\ FindallLen(line) = 1
             THEN Convert(line)
             ELSE ParseFrom_firstMatch(Tail(lines), i - 1)

\* for i in reversed(range(len(lines))): the first line, from line i down,
\* that matches after strip() gives the result.
ParseFrom(lines, i) ==
    IF i = 0 THEN ProgressNone
    ELSE LET line == Strip(lines[i])
         IN  IF Matches(line) /\ FindallLen(line) = 1
             THEN Convert(line)
             ELSE ParseFrom(lines, i - 1)

\* Progress.parse(logs)
Parse(text) == ParseFrom(Split(text), Len(Split(text)))

\* Prediction.progress: None when logs is None or "", else the parse.
ProgressOf(l) ==
    IF l.none \/ l.text = << >> THEN ProgressNone ELSE Parse(l.text)

(* --------------------------- SSE decoding ------------------------------ *)

\* Largest number of pieces an event stream is put together from.
MaxBlocks == 3

\* Largest size of a chunk that is not the whole rest of the stream.
MaxChunk == 3

\* Field names and event types of the wire grammar.
FieldEvent == <<"e", "v", "e", "n", "t">>

FieldData == <<"d", "a", "t", "a">>

FieldId == <<"i", "d">>

TypeMessage == <<"m", "e", "s", "s", "a", "g", "e">>

TypeOutput == <<"o", "u", "t", "p", "u", "t">>

TypeDone == <<"d", "o", "n", "e">>

\* Piece of a stream: an output event.
BlockOutput == <<"e", "v", "e", "n", "t", ":", " ", "o", "u", "t", "p", "u", "t", "\n", "d", "a", "t", "a", ":", " ", "a", "\n", "\n">>

\* Piece of a stream: an event with an id and two data lines and no event field.
BlockMessage == <<"i", "d", ":", " ", "7", "\n", "d", "a", "t", "a", ":", " ", "b", "\n", "d", "a", "t", "a", ":", " ", "c", "\n", "\n">>

\* Piece of a stream: a comment line.
BlockComment == <<":", " ", "k", "\n">>

\* Piece of a stream: the done event.
BlockDone == <<"e", "v", "e", "n", "t", ":", " ", "d", "o", "n", "e", "\n", "d", "a", "t", "a", ":", " ", "{", "}", "\n", "\n">>

\* Piece of a stream: an event cut off inside its data line.
BlockPartial == <<"e", "v", "e", "n", "t", ":", " ", "l", "o", "g", "s", "\n", "d", "a", "t", "a", ":", " ", "x">>

\* Piece of a stream: a blank line by itself.
BlockBlank == <<"\n">>

\* Piece of a stream: an event with a type and data that no blank line closes.
BlockOpen == <<"e", "v", "e", "n", "t", ":", " ", "e", "r", "r", "o", "r", "\n", "d", "a", "t", "a", ":", " ", "y", "\n">>

SampleBlocks ==
    {BlockOutput, BlockMessage, BlockComment, BlockDone, BlockPartial,
     BlockBlank, BlockOpen}

RECURSIVE Concat(_)
Concat(bs) == IF bs = << >> THEN << >> ELSE Head(bs) \o Concat(Tail(bs))

\* The byte streams a server sends: up to MaxBlocks pieces in any order.
SseStreams ==
    {Concat(bs) : bs \in UNION {[1..n -> SampleBlocks] : n \in 1..MaxBlocks}}

\* The accumulator with nothing accumulated.
EmptyAcc == [event |-> << >>, data |-> << >>, id |-> << >>, hasId |-> FALSE]

\* The value of a field line: what follows the colon, less one leading space.
FieldValue(line, k) ==
    IF k < Len(line) /\ line[k + 1] = " " THEN SubSeq(line, k + 2, Len(line))
    ELSE SubSeq(line, k + 1, Len(line))

\* Where the first colon of a line is; 0 when it has none.
ColonAt(line) ==
    IF \E i \in 1..Len(line) : line[i] = ":"
    THEN CHOOSE i \in 1..Len(line) :
             line[i] = ":" /\ \A j \in 1..(i - 1) : line[j] # ":"
    ELSE 0

\* One non-blank line added to the accumulator: comments and unrecognized
\* fields are ignored, data lines are collected, event and id are set.
ApplyLine(acc, line) ==
    LET k == ColonAt(line)
        name == IF k = 0 THEN line ELSE SubSeq(line, 1, k - 1)
        value == IF k = 0 THEN << >> ELSE FieldValue(line, k)
    IN  IF k = 1 THEN acc
        ELSE IF name = FieldEvent THEN [acc EXCEPT !.event = value]
        ELSE IF name = FieldData THEN [acc EXCEPT !.data = Append(@, value)]
        ELSE IF name = FieldId THEN [acc EXCEPT !.id = value, !.hasId = TRUE]
        ELSE acc

\* The event emitted for an accumulator: the data lines joined by newlines,
\* the type "message" when no event field was given.
MakeEvent(acc) ==
    [event |-> IF acc.event = << >> THEN TypeMessage ELSE acc.event,
     data |-> JoinLines(acc.data), id |-> acc.id, hasId |-> acc.hasId]

\* Faulty variant: the id of an event stays in the accumulator.
AfterEmit_keepsId(acc) == [EmptyAcc EXCEPT !.id = acc.id, !.hasId = acc.hasId]

\* The accumulator after an emission: reset.
AfterEmit(acc) == EmptyAcc

RECURSIVE ProcessLines_pastDone(_, _)
\* Faulty variant: decoding goes on after a done event.
ProcessLines_pastDone(st, lines) ==
    IF lines = << >> THEN [st EXCEPT !.done = FALSE]
    ELSE IF Head(lines) = << >>
    THEN ProcessLines_pastDone(
             [acc |-> AfterEmit(st.acc),
              events |-> Append(st.events, MakeEvent(st.acc)),
              done |-> FALSE], Tail(lines))
    ELSE ProcessLines_pastDone(
             [st EXCEPT !.acc = ApplyLine(st.acc, Head(lines))], Tail(lines))

RECURSIVE ProcessLines(_, _)
\* The complete lines of a chunk, in order: a blank line emits the
\* accumulated event and resets the accumulator; a done event ends the
\* sequence and what follows it is not decoded.
ProcessLines(st, lines) ==
    IF lines = << >> \/ st.done THEN st
    ELSE IF Head(lines) = << >>
    THEN ProcessLines(
             [acc |-> AfterEmit(st.acc),
              events |-> Append(st.events, MakeEvent(st.acc)),
              done |-> MakeEvent(st.acc).event = TypeDone], Tail(lines))
    ELSE ProcessLines(
             [st EXCEPT !.acc = ApplyLine(st.acc, Head(lines))], Tail(lines))

\* The complete lines of a text and the partial line after the last newline.
CompleteLines(text) == SubSeq(Split(text), 1, Len(Split(text)) - 1)

PartialLine(text) == Split(text)[Len(Split(text))]

\* Faulty variant: the partial line at the end of a chunk is not buffered
\* but taken as a line.
Decode_noBuffer(buf, acc, events, chunk) ==
    LET st == ProcessLines([acc |-> acc, events |-> events, done |-> FALSE],
                           IF PartialLine(chunk) = << >> THEN CompleteLines(chunk)
                           ELSE Split(chunk))
    IN  [buf |-> << >>, acc |-> st.acc, events |-> st.events, done |-> st.done]

\* One chunk decoded: the chunk is appended to the buffered partial line,
\* the complete lines are processed and the rest is buffered.
Decode(buf, acc, events, chunk) ==
    LET st == ProcessLines([acc |-> acc, events |-> events, done |-> FALSE],
                           CompleteLines(buf \o chunk))
    IN  [buf |-> IF st.done THEN << >> ELSE PartialLine(buf \o chunk),
         acc |-> st.acc, events |-> st.events, done |-> st.done]

\* The streams of a job that runs to completion: output events, then done.
CompletedJobStreams ==
    {Concat(<<BlockOutput, BlockDone>>),
     Concat(<<BlockOutput, BlockOutput, BlockDone>>),
     Concat(<<BlockComment, BlockOutput, BlockDone>>),
     Concat(<<BlockOutput, BlockMessage, BlockDone>>)}

(* --------------------------- run identifiers --------------------------- *)

\* run has not been called.
NoIdent == <<"-">>

IdentInvalid == <<"i", "n", "v", "a", "l", "i", "d">>

IdentModel == <<"o", "/", "n">>

IdentVersion == <<"o", "/", "n", ":", "v", "1">>

IdentNoOwner == <<"/", "n">>

IdentNoName == <<"o", "/", ":", "v", "1">>

IdentNoVersion == <<"o", "/", "n", ":">>

IdentTwoSlashes == <<"o", "/", "n", "/", "x">>

Identifiers ==
    {IdentInvalid, IdentModel, IdentVersion, IdentNoOwner, IdentNoName,
     IdentNoVersion, IdentTwoSlashes}

\* Where character ch first occurs in s at or after position i; 0 when it
\* does not.
FirstAt(s, ch, i) ==
    IF \E k \in i..Len(s) : s[k] = ch
    THEN CHOOSE k \in i..Len(s) : s[k] = ch /\ \A j \in i..(k - 1) : s[j] # ch
    ELSE 0

\* The identifier parsed as owner/name or owner/name:version: the owner is
\* what precedes the first "/", the name what follows it up to the first ":",
\* the version what follows that; ok is FALSE when a part is empty or the
\* name holds a "/".
ParseIdentifier(s) ==
    LET sl == FirstAt(s, "/", 1)
        co == IF sl = 0 THEN 0 ELSE FirstAt(s, ":", sl + 1)
        nameEnd == IF co = 0 THEN Len(s) ELSE co - 1
    IN  [ok |-> /\ sl > 1
                /\ nameEnd > sl
                /\ FirstAt(s, "/", sl + 1) = 0 \/ FirstAt(s, "/", sl + 1) > nameEnd
                /\ co = 0 \/ co < Len(s),
         pinned |-> co # 0]

(* ------------------------ creating a training -------------------------- *)

\* The values trainings.create is called with: None, a string, a Version
\* object (val is its id), a dict of inputs, a file handle.
TrNone == [kind |-> "none", val |-> << >>]

TrDict == [kind |-> "dict", val |-> <<"x">>]

TrFile == [kind |-> "file", val |-> <<"f">>]

TrDataUri == [kind |-> "str", val |-> <<"d", "a", "t", "a", ":">>]

TrDest == [kind |-> "str", val |-> <<"o", "/", "d">>]

\* A version string ending in a line feed, and one holding a line feed inside
\* its version id.
IdentVersionLf == <<"o", "/", "n", ":", "v", "\n">>

IdentVersionInnerLf == <<"o", "/", "n", ":", "v", "\n", "w">>

\* The versions a caller names: None, a well-formed string, a string without
\* a version id, strings with a line feed, a Version object.
TrainVersions ==
    {TrNone, [kind |-> "str", val |-> IdentVersion],
     [kind |-> "str", val |-> IdentModel], [kind |-> "str", val |-> IdentVersionLf],
     [kind |-> "str", val |-> IdentVersionInnerLf],
     [kind |-> "obj", val |-> IdentVersion]}

\* *args: up to three positional arguments, the first a version.
TrainPositional ==
    {<< >>} \cup {<<v>> : v \in TrainVersions}
            \cup {<<v, a>> : v \in TrainVersions, a \in {TrNone, TrDict, TrDest}}
            \cup {<<v, a, b>> : v \in TrainVersions, a \in {TrNone, TrDict, TrDest},
                                b \in {TrNone, TrDict, TrDest}}

\* **kwargs: an absent keyword reads as None through kwargs.get.
TrainKeywords ==
    {[version |-> v, destination |-> d, input |-> i, webhook |-> w,
      webhook_completed |-> IF w = None THEN None ELSE "https://done",
      webhook_events_filter |-> IF w = None THEN None ELSE "[completed]"] :
        v \in {TrNone, [kind |-> "str", val |-> IdentVersion]},
        d \in {TrNone, TrDest}, i \in {TrNone, TrDict, TrFile},
        w \in {None, "https://hook"}}

NoTrainKw == [version |-> TrNone, destination |-> TrNone, input |-> TrNone,
              webhook |-> None, webhook_completed |-> None,
              webhook_events_filter |-> None]

\* trainings.create not called.
NoTrainArgs == [called |-> FALSE, pos |-> << >>, kw |-> NoTrainKw]

\* No training creation request sent.
NoTrainBody == [sent |-> FALSE, username |-> << >>, model_name |-> << >>,
                version_id |-> << >>, input |-> TrNone, destination |-> TrNone,
                webhook |-> "absent", webhook_completed |-> "absent",
                webhook_events_filter |-> "absent"]

\* encode_json(input, upload_file=upload_file) on these values: a file handle
\* becomes the data URI upload_file returns, anything else stays as it is.
EncodeJson(v) == IF v.kind = "file" THEN TrDataUri ELSE v

\* re.match(r"^(?P<username>[^/]+)/(?P<model_name>[^:]+):(?P<version_id>.+)$", s):
\* the username runs to the first "/", the model name from there to the next
\* ":", each non-empty; the version id is what follows, at least one
\* character and none of them a line feed ("." matches no line feed), up to
\* the end of the string or to a line feed that ends the string ("$").
TrainVersionMatch(s) ==
    LET sl == FirstAt(s, "/", 1)
        co == IF sl = 0 THEN 0 ELSE FirstAt(s, ":", sl + 1)
        lf == IF co = 0 THEN 0 ELSE FirstAt(s, "\n", co + 1)
        end == IF lf = 0 THEN Len(s) ELSE lf - 1
        ok == /\ sl > 1
              /\ co > sl + 1
              /\ end > co
              /\ lf = 0 \/ lf = Len(s)
    IN  [ok |-> ok,
         username |-> IF ok THEN SubSeq(s, 1, sl - 1) ELSE << >>,
         model_name |-> IF ok THEN SubSeq(s, sl + 1, co - 1) ELSE << >>,
         version_id |-> IF ok THEN SubSeq(s, co + 1, end) ELSE << >>]

(* --------------------------- initial state ----------------------------- *)

\* The state before any call, the logs and the event stream apart.
InitJob ==
    /\ srvStatus = "none" /\ srvOutput = NoneOut /\ srvError = None
    /\ status = "none" /\ output = NoneOut /\ error = None
    /\ pc = "idle" /\ caller = "none"
    /\ schema = NoSchema /\ mode = "none"
    /\ previous_output = << >> /\ cur_output = LocalList(<< >>) /\ new_output = << >>
    /\ yielded = << >> /\ raised = NoRaise /\ result = NoneOut
    /\ startLen = 0 /\ reloads = 0 /\ nonTermObs = 0 /\ startStatus = "none"
    /\ cancelReqs = 0
    /\ prevStatus = "none" /\ lastCancelId = None /\ cancelCalls = 0
    /\ version = NoVersion /\ body = NoBody /\ args = NoArgs
    /\ srv2Status = "none" /\ srv2Output = NoneOut
    /\ status2 = "none" /\ output2 = NoneOut /\ pc2 = "idle"
    /\ progress = NoProgress
    /\ ssePos = 0 /\ sseBuf = << >> /\ sseAcc = EmptyAcc
    /\ sseEvents = << >> /\ sseState = "open"
    /\ runIdent = NoIdent /\ netReqs = 0
    /\ trArgs = NoTrainArgs /\ trBody = NoTrainBody
    /\ trRaised = "none" /\ trStatus = "none"

Init ==
    /\ InitJob
    /\ logs = NoLogs
    /\ sseStream = << >>

\* An event stream about to be read: any of the byte streams.
SseInit ==
    /\ InitJob
    /\ logs = NoLogs
    /\ sseStream \in SseStreams

\* A record whose logs hold any of the log texts.
ProgressInit ==
    /\ InitJob
    /\ logs \in LogTexts
    /\ sseStream = << >>

(* ----------------------- the remote job (server) ----------------------- *)

\* starting -> processing
SrvStart ==
    /\ srvStatus = "starting"
    /\ srvStatus' = "processing"
    /\ UNCHANGED <<srvOutput, srvError, recVars, pc, caller, schema, mode,
                   iterVars, raised, result, cntVars, cancelReqs>>
    /\ UNCHANGED extVars

\* The running job appends one element to its array output; the k-th element
\* to arrive is the value k.
SrvAppend ==
    /\ srvStatus = "processing"
    /\ Len(OrEmpty(srvOutput)) < MaxOut
    /\ srvOutput' = ListOut(Append(OrEmpty(srvOutput), Len(OrEmpty(srvOutput)) + 1))
    /\ UNCHANGED <<srvStatus, srvError, recVars, pc, caller, schema, mode,
                   iterVars, raised, result, cntVars, cancelReqs>>
    /\ UNCHANGED extVars

\* processing -> succeeded
SrvSucceed ==
    /\ srvStatus = "processing"
    /\ srvStatus' = "succeeded"
    /\ UNCHANGED <<srvOutput, srvError, recVars, pc, caller, schema, mode,
                   iterVars, raised, result, cntVars, cancelReqs>>
    /\ UNCHANGED extVars

\* processing -> failed; error is set only then.
SrvFail ==
    /\ srvStatus = "processing"
    /\ \E e \in ErrTexts :
        /\ srvStatus' = "failed"
        /\ srvError' = e
    /\ UNCHANGED <<srvOutput, recVars, pc, caller, schema, mode,
                   iterVars, raised, result, cntVars, cancelReqs>>
    /\ UNCHANGED extVars

(* ------------------------- the local record ---------------------------- *)

\* reload(): re-fetch the job by id and refresh the local record in place.
Reload ==
    /\ prevStatus' = status
    /\ status' = srvStatus
    /\ output' = srvOutput
    /\ error' = srvError

\* The arguments of predictions.create: version is None, a version id string
\* or a Version object; input is None, a mapping of plain values or a mapping
\* holding a file handle; each option is None or a value.
VersionArgs ==
    {[kind |-> "none", id |-> None], [kind |-> "str", id |-> "v1"],
     [kind |-> "obj", id |-> "v1"], [kind |-> "obj", id |-> "v2"]}

InputArgs == {None, "plain", "file"}

KwArgs ==
    [webhook : {None, "https://hook"}, webhook_completed : {None, "https://done"},
     webhook_events_filter : {None, "[completed]"}, stream : {None, "True", "False"}]

NoKw == [webhook |-> None, webhook_completed |-> None,
         webhook_events_filter |-> None, stream |-> None]

\* The version and the input Version.predict and a plain caller create with.
SelfVersion == [kind |-> "obj", id |-> "v1"]

\* encode_json(input, upload_file=upload_file): plain values stay as they are,
\* a file handle becomes the data URI upload_file returns.
EncodeInput(inp) == IF inp = "file" THEN "data-uri" ELSE inp

\* Faulty variant: an option is left out whenever its value is falsy.
BodyOption_truthy(value) == IF value \notin {None, "False"} THEN value ELSE "absent"

\* for key in [...]: value = kwargs.get(key); if value is not None: body[key] = value
BodyOption(value) == IF value # None THEN value ELSE "absent"

\* body = {"version": ..., "input": ...} plus the options that are not None.
RequestBody(v, inp, kw) ==
    [sent |-> TRUE, version |-> v.id, input |-> EncodeInput(inp),
     webhook |-> BodyOption(kw.webhook),
     webhook_completed |-> BodyOption(kw.webhook_completed),
     webhook_events_filter |-> BodyOption(kw.webhook_events_filter),
     stream |-> BodyOption(kw.stream)]

CallArgs(v, inp, kw) ==
    [called |-> TRUE, version |-> v, input |-> inp, webhook |-> kw.webhook,
     webhook_completed |-> kw.webhook_completed,
     webhook_events_filter |-> kw.webhook_events_filter, stream |-> kw.stream]

\* Faulty variant: the version the server returned stays in the record.
CreateJobAs_keepsServerVersion(v, inp, kw, st) ==
    /\ args' = CallArgs(v, inp, kw)
    /\ body' = RequestBody(v, inp, kw)
    /\ srvStatus' = st /\ srvOutput' = NoneOut /\ srvError' = None
    /\ status' = st /\ output' = NoneOut /\ error' = None
    /\ version' = IF v.kind = "obj" THEN v ELSE [kind |-> "str", id |-> v.id]

\* The request and the response of predictions.create: one POST with the
\* body; the job exists remotely with the status st of the response, and the
\* response becomes the local record, its version replaced by the caller's
\* Version object or deleted.
CreateJobAs(v, inp, kw, st) ==
    /\ args' = CallArgs(v, inp, kw)
    /\ body' = RequestBody(v, inp, kw)
    /\ srvStatus' = st /\ srvOutput' = NoneOut /\ srvError' = None
    /\ status' = st /\ output' = NoneOut /\ error' = None
    /\ version' = IF v.kind = "obj" THEN v ELSE NoVersion

\* The creation as the service documents it: the new job is in state starting.
CreateJob(v, inp, kw) == CreateJobAs(v, inp, kw, "starting")

\* Faulty variant: a missing input is not rejected.
CreateWith_noInputCheck(v, inp, kw) ==
    /\ pc = "idle"
    /\ srvStatus = "none"
    /\ IF v.kind = "none"
       THEN /\ raised' = [kind |-> "ValueError", text |-> "version"]
            /\ pc' = "create_failed"
            /\ args' = CallArgs(v, inp, kw)
            /\ UNCHANGED <<srvVars, recVars, version, body>>
       ELSE /\ CreateJob(v, inp, kw)
            /\ pc' = "held"
            /\ UNCHANGED raised
    /\ UNCHANGED <<caller, schema, mode, iterVars, result, cntVars, cancelReqs>>
    /\ UNCHANGED <<prevStatus, cancelVars, job2Vars, progVars, sseVars, runVars, trainVars>>

\* predictions.create(version, input, **options): ValueError when the version
\* or the input is None, before the body is built; else the request.
CreateWith(v, inp, kw) ==
    /\ pc = "idle"
    /\ srvStatus = "none"
    /\ IF v.kind = "none"
       THEN /\ raised' = [kind |-> "ValueError", text |-> "version"]
            /\ pc' = "create_failed"
            /\ args' = CallArgs(v, inp, kw)
            /\ UNCHANGED <<srvVars, recVars, version, body>>
       ELSE IF inp = None
       THEN /\ raised' = [kind |-> "ValueError", text |-> "input"]
            /\ pc' = "create_failed"
            /\ args' = CallArgs(v, inp, kw)
            /\ UNCHANGED <<srvVars, recVars, version, body>>
       ELSE /\ CreateJob(v, inp, kw)
            /\ pc' = "held"
            /\ UNCHANGED raised
    /\ UNCHANGED <<caller, schema, mode, iterVars, result, cntVars, cancelReqs>>
    /\ UNCHANGED <<prevStatus, cancelVars, job2Vars, progVars, sseVars, runVars, trainVars>>

\* The caller creates a prediction of a version it names by id.
Create == CreateWith([kind |-> "str", id |-> "v1"], "plain", NoKw)

\* predictions.get(id): a fresh record of the job the caller holds; the
\* version of the response is deleted.
Get ==
    /\ pc = "held"
    /\ Reload
    /\ version' = NoVersion
    /\ UNCHANGED <<srvVars, pc, caller, schema, mode, iterVars, raised,
                   result, cntVars, cancelReqs>>
    /\ UNCHANGED <<cancelVars, body, args, job2Vars, progVars, sseVars, runVars, trainVars>>

\* Faulty variant: the remote job becomes canceled even when it is terminal.
SrvCancelled_always(s) == "canceled"

\* What a cancellation request does to the remote job's status: a job that
\* is not yet terminal becomes canceled, a terminal job stays as it is.
SrvCancelled(s) == IF s \in NonTerminalStates THEN "canceled" ELSE s

\* Prediction.cancel: one POST to /v1/predictions/{id}/cancel.  Remotely a
\* job that is not yet terminal becomes canceled; the local record is not
\* touched.
\* Faulty variant: a job whose record is already terminal is refused locally.
Cancel_refusesTerminal ==
    /\ srvStatus # "none"
    /\ cancelCalls < MaxCancels
    /\ cancelCalls' = cancelCalls + 1
    /\ IF IsTerminal(status)
       THEN /\ raised' = [kind |-> "ValueError", text |-> None]
            /\ UNCHANGED <<cancelReqs, srvStatus, lastCancelId>>
       ELSE /\ cancelReqs' = cancelReqs + 1
            /\ lastCancelId' = JobId
            /\ srvStatus' = SrvCancelled(srvStatus)
            /\ UNCHANGED raised
    /\ UNCHANGED <<srvOutput, srvError, recVars, pc, caller, schema, mode,
                   iterVars, result, cntVars>>
    /\ UNCHANGED <<prevStatus, restVars>>

Cancel ==
    /\ srvStatus # "none"
    /\ cancelCalls < MaxCancels
    /\ cancelCalls' = cancelCalls + 1
    /\ cancelReqs' = cancelReqs + 1
    /\ lastCancelId' = JobId
    /\ srvStatus' = SrvCancelled(srvStatus)
    /\ UNCHANGED <<srvOutput, srvError, recVars, pc, caller, schema, mode,
                   iterVars, raised, result, cntVars>>
    /\ UNCHANGED <<prevStatus, restVars>>

(* --------------------------- Prediction.wait --------------------------- *)

\* The caller calls wait() on the prediction it holds.
WaitCall ==
    /\ pc = "held"
    /\ pc' = "wait_check"
    /\ caller' = "user"
    /\ reloads' = 0 /\ nonTermObs' = 0 /\ startStatus' = status
    /\ UNCHANGED <<srvVars, recVars, schema, mode, iterVars, raised, result,
                   cancelReqs>>
    /\ UNCHANGED extVars

\* Where wait() returns to.
AfterWait == IF caller = "predict" THEN "predict_after_wait" ELSE "wait_done"

\* Faulty variant: a do-while loop, which polls once before the first test.
WaitCheck_pollsFirst ==
    /\ pc = "wait_check"
    /\ IF IsTerminal(status) /\ reloads > 0
       THEN /\ pc' = AfterWait
            /\ UNCHANGED nonTermObs
       ELSE /\ pc' = "wait_sleep"
            /\ nonTermObs' = IF IsTerminal(status) THEN nonTermObs ELSE Count(nonTermObs)
    /\ UNCHANGED <<srvVars, recVars, caller, schema, mode, iterVars, raised,
                   result, reloads, startStatus, cancelReqs>>
    /\ UNCHANGED extVars

\* Faulty variant: gives up after MaxPolls reloads.
WaitCheck_givesUp ==
    /\ pc = "wait_check"
    /\ IF IsTerminal(status) \/ reloads >= MaxPolls
       THEN /\ pc' = AfterWait
            /\ UNCHANGED nonTermObs
       ELSE /\ pc' = "wait_sleep"
            /\ nonTermObs' = Count(nonTermObs)
    /\ UNCHANGED <<srvVars, recVars, caller, schema, mode, iterVars, raised,
                   result, reloads, startStatus, cancelReqs>>
    /\ UNCHANGED extVars

\* while self.status not in ["succeeded", "failed", "canceled"]:
WaitCheck ==
    /\ pc = "wait_check"
    /\ IF IsTerminal(status)
       THEN /\ pc' = AfterWait
            /\ UNCHANGED nonTermObs
       ELSE /\ pc' = "wait_sleep"
            /\ nonTermObs' = Count(nonTermObs)
    /\ UNCHANGED <<srvVars, recVars, caller, schema, mode, iterVars, raised,
                   result, reloads, startStatus, cancelReqs>>
    /\ UNCHANGED extVars

\* time.sleep(poll_interval); self.reload()
WaitSleepReload ==
    /\ pc = "wait_sleep"
    /\ Reload
    /\ reloads' = Count(reloads)
    /\ pc' = "wait_check"
    /\ UNCHANGED <<srvVars, caller, schema, mode, iterVars, raised, result,
                   nonTermObs, startStatus, cancelReqs>>
    /\ UNCHANGED <<cancelVars, restVars>>

(* ---------------------- Prediction.output_iterator --------------------- *)

\* Faulty variant: the body runs up to its first reload when the iterator is
\* obtained.
OutputIteratorCall_eager ==
    /\ pc = "held"
    /\ pc' = "iter_ready"
    /\ caller' = "user"
    /\ Reload
    /\ reloads' = Count(reloads)
    /\ UNCHANGED <<srvVars, schema, mode, iterVars, raised, result,
                   nonTermObs, startStatus, cancelReqs>>
    /\ UNCHANGED <<cancelVars, restVars>>

\* The caller calls output_iterator() on the prediction it holds: a generator
\* object is made and none of its body runs.
OutputIteratorCall ==
    /\ pc = "held"
    /\ pc' = "iter_ready"
    /\ caller' = "user"
    /\ UNCHANGED <<srvVars, recVars, schema, mode, iterVars, raised, result,
                   cntVars, cancelReqs>>
    /\ UNCHANGED extVars

\* Faulty variant: iteration starts from the empty list whatever the output
\* already holds.
IterBegin_fromEmpty ==
    /\ pc = "iter_ready"
    /\ previous_output' = << >>
    /\ startLen' = Len(OrEmpty(output))
    /\ reloads' = 0 /\ nonTermObs' = 0 /\ startStatus' = status
    /\ pc' = "iter_check"
    /\ UNCHANGED <<srvVars, recVars, caller, schema, mode, cur_output,
                   new_output, yielded, raised, result, cancelReqs>>
    /\ UNCHANGED extVars

\* The consumer asks for the first element: previous_output = self.output or []
IterBegin ==
    /\ pc = "iter_ready"
    /\ previous_output' = OrEmpty(output)
    /\ startLen' = Len(OrEmpty(output))
    /\ reloads' = 0 /\ nonTermObs' = 0 /\ startStatus' = status
    /\ pc' = "iter_check"
    /\ UNCHANGED <<srvVars, recVars, caller, schema, mode, cur_output,
                   new_output, yielded, raised, result, cancelReqs>>
    /\ UNCHANGED extVars

\* Faulty variant: every terminal status but succeeded raises ModelError.
IterCheck_raisesUnlessSucceeded ==
    /\ pc = "iter_check"
    /\ IF ~IsTerminal(status)
       THEN /\ cur_output' = LocalList(OrEmpty(output))
            /\ new_output' = SliceFrom(OrEmpty(output), Len(previous_output))
            /\ nonTermObs' = Count(nonTermObs)
            /\ pc' = "iter_yield"
            /\ UNCHANGED raised
       ELSE IF status # "succeeded"
       THEN /\ raised' = [kind |-> "ModelError", text |-> error]
            /\ pc' = "iter_raised"
            /\ UNCHANGED <<cur_output, new_output, nonTermObs>>
       ELSE /\ cur_output' = LocalList(OrEmpty(output))
            /\ new_output' = SliceFrom(OrEmpty(output), Len(previous_output))
            /\ pc' = "iter_final"
            /\ UNCHANGED <<raised, nonTermObs>>
    /\ UNCHANGED <<srvVars, recVars, caller, schema, mode, previous_output,
                   yielded, result, startLen, reloads, startStatus,
                   cancelReqs>>
    /\ UNCHANGED extVars

\* Faulty variant: nothing is yielded once the status is terminal.
IterCheck_dropsFinal ==
    /\ pc = "iter_check"
    /\ IF ~IsTerminal(status)
       THEN /\ cur_output' = LocalList(OrEmpty(output))
            /\ new_output' = SliceFrom(OrEmpty(output), Len(previous_output))
            /\ nonTermObs' = Count(nonTermObs)
            /\ pc' = "iter_yield"
            /\ UNCHANGED raised
       ELSE IF status = "failed"
       THEN /\ raised' = [kind |-> "ModelError", text |-> error]
            /\ pc' = "iter_raised"
            /\ UNCHANGED <<cur_output, new_output, nonTermObs>>
       ELSE /\ cur_output' = LocalList(OrEmpty(output))
            /\ new_output' = << >>
            /\ pc' = "iter_final"
            /\ UNCHANGED <<raised, nonTermObs>>
    /\ UNCHANGED <<srvVars, recVars, caller, schema, mode, previous_output,
                   yielded, result, startLen, reloads, startStatus,
                   cancelReqs>>
    /\ UNCHANGED extVars

\* The loop test of output_iterator and what follows it up to the next yield:
\* while non-terminal, new_output = output[len(previous_output):]; once
\* terminal, raise ModelError(self.error) when failed, else compute the last
\* new_output.
IterCheck ==
    /\ pc = "iter_check"
    /\ IF ~IsTerminal(status)
       THEN /\ cur_output' = LocalList(OrEmpty(output))
            /\ new_output' = SliceFrom(OrEmpty(output), Len(previous_output))
            /\ nonTermObs' = Count(nonTermObs)
            /\ pc' = "iter_yield"
            /\ UNCHANGED raised
       ELSE IF status = "failed"
       THEN /\ raised' = [kind |-> "ModelError", text |-> error]
            /\ pc' = "iter_raised"
            /\ UNCHANGED <<cur_output, new_output, nonTermObs>>
       ELSE /\ cur_output' = LocalList(OrEmpty(output))
            /\ new_output' = SliceFrom(OrEmpty(output), Len(previous_output))
            /\ pc' = "iter_final"
            /\ UNCHANGED <<raised, nonTermObs>>
    /\ UNCHANGED <<srvVars, recVars, caller, schema, mode, previous_output,
                   yielded, result, startLen, reloads, startStatus,
                   cancelReqs>>
    /\ UNCHANGED extVars

\* yield from new_output: one element handed to the consumer.
IterYield ==
    /\ pc = "iter_yield"
    /\ new_output # << >>
    /\ yielded' = Append(yielded, Head(new_output))
    /\ new_output' = Tail(new_output)
    /\ UNCHANGED <<srvVars, recVars, pc, caller, schema, mode, previous_output,
                   cur_output, raised, result, startLen, cntVars, cancelReqs>>
    /\ UNCHANGED extVars

\* previous_output = output, once yield from new_output is exhausted; the
\* generator then sleeps in time.sleep(poll_interval).
IterSetPrevious ==
    /\ pc = "iter_yield"
    /\ new_output = << >>
    /\ previous_output' = cur_output.items
    /\ pc' = "iter_sleep"
    /\ UNCHANGED <<srvVars, recVars, caller, schema, mode, cur_output, new_output,
                   yielded, raised, result, startLen, cntVars, cancelReqs>>
    /\ UNCHANGED extVars

\* time.sleep(poll_interval) returns; self.reload()
IterSleepReload ==
    /\ pc = "iter_sleep"
    /\ UNCHANGED previous_output
    /\ Reload
    /\ reloads' = Count(reloads)
    /\ pc' = "iter_check"
    /\ UNCHANGED <<srvVars, caller, schema, mode, cur_output, new_output,
                   yielded, raised, result, startLen, nonTermObs, startStatus,
                   cancelReqs>>
    /\ UNCHANGED <<cancelVars, restVars>>

\* for output in new_output: yield output  (after the loop); the loop
\* variable rebinds the local output to the element being yielded.
IterFinalYield ==
    /\ pc = "iter_final"
    /\ new_output # << >>
    /\ cur_output' = LocalElem(Head(new_output))
    /\ yielded' = Append(yielded, Head(new_output))
    /\ new_output' = Tail(new_output)
    /\ UNCHANGED <<srvVars, recVars, pc, caller, schema, mode, previous_output,
                   raised, result, startLen, cntVars, cancelReqs>>
    /\ UNCHANGED extVars

\* The generator returns: the sequence ends normally.
IterEnd ==
    /\ pc = "iter_final"
    /\ new_output = << >>
    /\ pc' = "iter_done"
    /\ UNCHANGED <<srvVars, recVars, caller, schema, mode, iterVars, raised,
                   result, cntVars, cancelReqs>>
    /\ UNCHANGED extVars

(* ---------------------------- Version.predict -------------------------- *)

\* Faulty variant: reloads the new prediction once before handing out the
\* iterator.
Predict_reloadsFirst(s) ==
    /\ pc = "idle"
    /\ srvStatus = "none"
    /\ CreateJob(SelfVersion, "plain", NoKw)
    /\ schema' = s
    /\ caller' = "predict"
    /\ nonTermObs' = 0 /\ startStatus' = "starting"
    /\ IF SelectMode(s) = "incremental"
       THEN /\ mode' = "incremental"
            /\ pc' = "iter_ready"
            /\ reloads' = 1
            /\ UNCHANGED raised
       ELSE IF SelectMode(s) = "atomic"
       THEN /\ mode' = "atomic"
            /\ pc' = "wait_check"
            /\ reloads' = 0
            /\ UNCHANGED raised
       ELSE /\ mode' = "none"
            /\ raised' = [kind |-> SelectMode(s), text |-> None]
            /\ pc' = "predict_crashed"
            /\ reloads' = 0
    /\ UNCHANGED <<iterVars, result, cancelReqs>>
    /\ UNCHANGED <<prevStatus, cancelVars, job2Vars, progVars, sseVars, runVars, trainVars>>

\* prediction = predictions.create(version=self, input=kwargs), then the test
\* of the output schema: return prediction.output_iterator() for an array
\* output, enter prediction.wait() otherwise; an exception of the schema
\* lookup ends the call after the job was created.
PredictAs(s, st) ==
    /\ pc = "idle"
    /\ srvStatus = "none"
    /\ CreateJobAs(SelfVersion, "plain", NoKw, st)
    /\ schema' = s
    /\ caller' = "predict"
    /\ reloads' = 0 /\ nonTermObs' = 0 /\ startStatus' = st
    /\ IF SelectMode(s) = "incremental"
       THEN /\ mode' = "incremental"
            /\ pc' = "iter_ready"
            /\ UNCHANGED raised
       ELSE IF SelectMode(s) = "atomic"
       THEN /\ mode' = "atomic"
            /\ pc' = "wait_check"
            /\ UNCHANGED raised
       ELSE /\ mode' = "none"
            /\ raised' = [kind |-> SelectMode(s), text |-> None]
            /\ pc' = "predict_crashed"
    /\ UNCHANGED <<iterVars, result, cancelReqs>>
    /\ UNCHANGED <<prevStatus, cancelVars, job2Vars, progVars, sseVars, runVars, trainVars>>

\* Version.predict on a job the service creates in state starting.
Predict(s) == PredictAs(s, "starting")

\* Faulty variant: the failed status is not tested after wait().
PredictFinish_ignoresFailed ==
    /\ pc = "predict_after_wait"
    /\ result' = output
    /\ pc' = "predict_returned"
    /\ UNCHANGED <<srvVars, recVars, caller, schema, mode, iterVars, raised,
                   cntVars, cancelReqs>>
    /\ UNCHANGED extVars

\* After wait(): raise ModelError(prediction.error) when failed, else return
\* prediction.output.
PredictFinish ==
    /\ pc = "predict_after_wait"
    /\ IF status = "failed"
       THEN /\ raised' = [kind |-> "ModelError", text |-> error]
            /\ pc' = "predict_raised"
            /\ UNCHANGED result
       ELSE /\ result' = output
            /\ pc' = "predict_returned"
            /\ UNCHANGED raised
    /\ UNCHANGED <<srvVars, recVars, caller, schema, mode, iterVars, cntVars,
                   cancelReqs>>
    /\ UNCHANGED extVars

(* ------------------------ abandoning a suspended call ------------------ *)

\* The caller gives up a wait() during its sleep (a timeout or an interrupt
\* of the caller): wait has no handler, so nothing more runs.
WaitAbandon ==
    /\ pc = "wait_sleep"
    /\ pc' = "abandoned"
    /\ UNCHANGED <<srvVars, recVars, caller, schema, mode, iterVars, raised,
                   result, cntVars, cancelReqs, extVars>>

\* Faulty variant: dropping the iterator cancels the remote job.
IterAbandon_cancels ==
    /\ pc \in {"iter_ready", "iter_yield", "iter_sleep", "iter_final"}
    /\ pc' = "abandoned"
    /\ cancelReqs' = cancelReqs + 1
    /\ lastCancelId' = JobId
    /\ srvStatus' = SrvCancelled(srvStatus)
    /\ UNCHANGED <<srvOutput, srvError, recVars, caller, schema, mode, iterVars,
                   raised, result, cntVars, prevStatus, cancelCalls, restVars>>

\* The consumer drops the iterator before it has ended (not started, or
\* suspended at a yield or in the sleep): the generator has no finally
\* clause, so nothing more runs.
IterAbandon ==
    /\ pc \in {"iter_ready", "iter_yield", "iter_sleep", "iter_final"}
    /\ pc' = "abandoned"
    /\ UNCHANGED <<srvVars, recVars, caller, schema, mode, iterVars, raised,
                   result, cntVars, cancelReqs, extVars>>

(* ---------------------------- specification ---------------------------- *)

ServerStep == SrvStart \/ SrvAppend \/ SrvSucceed \/ SrvFail

WaitStep == WaitCheck \/ WaitSleepReload

IterStep ==
    IterBegin \/ IterCheck \/ IterYield \/ IterSetPrevious \/ IterSleepReload
    \/ IterFinalYield \/ IterEnd

Next ==
    \/ ServerStep
    \/ Create \/ Get \/ Cancel
    \/ WaitCall \/ WaitStep
    \/ OutputIteratorCall \/ IterStep
    \/ (\E s \in Schemas : Predict(s))
    \/ PredictFinish

Spec == Init /\ [][Next]_vars

\* The same operations, with a caller that may also give up a suspended call.
AbandonNext == Next \/ WaitAbandon \/ IterAbandon

AbandonSpec == Init /\ [][AbandonNext]_vars

\* predictions.create called with any arguments, then the job and the record
\* it returned.
CreateNext ==
    \/ (\E v \in VersionArgs, inp \in InputArgs, kw \in KwArgs : CreateWith(v, inp, kw))
    \/ ServerStep
    \/ Get
    \/ Cancel

CreateSpec == Init /\ [][CreateNext]_vars

(* ------------------------- a second job ------------------------------- *)

\* Everything but the second job: the first job, its record and its caller.
job1Vars ==
    <<srvVars, recVars, pc, caller, schema, mode, iterVars, raised, result,
      cntVars, cancelReqs, prevStatus, cancelVars, createVars, progVars, sseVars, runVars, trainVars>>

\* The k-th element of the second job's output, unlike every element of the
\* first job's.
Elem2(k) == 0 - k

\* predictions.create for the second job: it exists remotely in state
\* starting and the response is its own record.
Create2 ==
    /\ pc2 = "idle"
    /\ srv2Status = "none"
    /\ srv2Status' = "starting" /\ srv2Output' = NoneOut
    /\ status2' = "starting" /\ output2' = NoneOut
    /\ pc2' = "held"
    /\ UNCHANGED job1Vars

\* The second job's lifecycle on the server.
Srv2Start ==
    /\ srv2Status = "starting"
    /\ srv2Status' = "processing"
    /\ UNCHANGED <<srv2Output, status2, output2, pc2, job1Vars>>

Srv2Append ==
    /\ srv2Status = "processing"
    /\ Len(OrEmpty(srv2Output)) < MaxOut2
    /\ srv2Output' =
           ListOut(Append(OrEmpty(srv2Output), Elem2(Len(OrEmpty(srv2Output)) + 1)))
    /\ UNCHANGED <<srv2Status, status2, output2, pc2, job1Vars>>

Srv2Finish ==
    /\ srv2Status = "processing"
    /\ srv2Status' \in {"succeeded", "failed"}
    /\ UNCHANGED <<srv2Output, status2, output2, pc2, job1Vars>>

\* reload() of the second job's record.
Reload2 ==
    /\ status2' = srv2Status
    /\ output2' = srv2Output

\* The second caller calls wait() on its prediction.
Wait2Call ==
    /\ pc2 = "held"
    /\ pc2' = "wait_check"
    /\ UNCHANGED <<srv2Status, srv2Output, status2, output2, job1Vars>>

\* while self.status not in ["succeeded", "failed", "canceled"]:
Wait2Check ==
    /\ pc2 = "wait_check"
    /\ pc2' = IF IsTerminal(status2) THEN "wait_done" ELSE "wait_sleep"
    /\ UNCHANGED <<srv2Status, srv2Output, status2, output2, job1Vars>>

\* Faulty variant: the refresh is written into the first job's record too.
Wait2SleepReload_sharedRecord ==
    /\ pc2 = "wait_sleep"
    /\ Reload2
    /\ status' = srv2Status /\ output' = srv2Output
    /\ pc2' = "wait_check"
    /\ UNCHANGED <<srv2Status, srv2Output>>
    /\ UNCHANGED <<srvVars, error, pc, caller, schema, mode, iterVars, raised, result,
                   cntVars, cancelReqs, prevStatus, cancelVars, createVars, progVars, sseVars, runVars, trainVars>>

\* time.sleep(poll_interval); self.reload()
Wait2SleepReload ==
    /\ pc2 = "wait_sleep"
    /\ Reload2
    /\ pc2' = "wait_check"
    /\ UNCHANGED <<srv2Status, srv2Output, job1Vars>>

Server2Step == Srv2Start \/ Srv2Append \/ Srv2Finish

Wait2Step == Wait2Check \/ Wait2SleepReload

\* Two jobs resolved at once: the first through output_iterator(), the
\* second through wait(), their steps interleaved in every order.
TwoJobNext ==
    \/ ServerStep
    \/ Create
    \/ OutputIteratorCall \/ IterStep
    \/ Server2Step
    \/ Create2
    \/ Wait2Call \/ Wait2Step

TwoJobSpec == Init /\ [][TwoJobNext]_vars

\* The caller reads prediction.progress.
ReadProgress ==
    /\ progress.reads < MaxReads
    /\ progress' = [reads |-> progress.reads + 1] @@ ProgressOf(logs)
    /\ UNCHANGED <<srvVars, recVars, pc, caller, schema, mode, iterVars, raised,
                   result, cntVars, cancelReqs>>
    /\ UNCHANGED <<prevStatus, cancelVars, createVars, job2Vars, logs, sseVars, runVars, trainVars>>

ProgressNext == ReadProgress

ProgressSpec == ProgressInit /\ [][ProgressNext]_vars

\* The server reports a status outside the documented set for a job it has
\* accepted, as in the recorded responses of the test: "running".
SrvReportsRunning ==
    /\ srvStatus = "starting"
    /\ srvStatus' = "running"
    /\ UNCHANGED <<srvOutput, srvError, recVars, pc, caller, schema, mode,
                   iterVars, raised, result, cntVars, cancelReqs>>
    /\ UNCHANGED extVars

\* The job reported as running is then reported as succeeded, and its
\* output, None until then, comes with that status.
SrvRunningSucceeds ==
    /\ srvStatus = "running"
    /\ srvStatus' = "succeeded"
    /\ srvOutput' = ListOut(<<1>>)
    /\ UNCHANGED <<srvError, recVars, pc, caller, schema, mode,
                   iterVars, raised, result, cntVars, cancelReqs>>
    /\ UNCHANGED extVars

\* predictions.create answered with status "running", as the creation
\* response of the test is.
CreateRunning ==
    /\ pc = "idle"
    /\ srvStatus = "none"
    /\ CreateJobAs([kind |-> "str", id |-> "v1"], "plain", NoKw, "running")
    /\ pc' = "held"
    /\ UNCHANGED <<caller, schema, mode, iterVars, raised, result, cntVars,
                   cancelReqs>>
    /\ UNCHANGED <<prevStatus, cancelVars, job2Vars, progVars, sseVars, runVars,
                   trainVars>>

\* Version.predict on a creation answered with status "running".
PredictRunning(s) == PredictAs(s, "running")

UndocumentedNext ==
    \/ Next
    \/ SrvReportsRunning
    \/ SrvRunningSucceeds
    \/ CreateRunning
    \/ (\E s \in Schemas : PredictRunning(s))

UndocumentedSpec == Init /\ [][UndocumentedNext]_vars

(* ------------------------- reading an event stream --------------------- *)

\* Everything but the event stream and its decoder.
nonSseVars ==
    <<srvVars, recVars, pc, caller, schema, mode, iterVars, raised, result,
      cntVars, cancelReqs, prevStatus, cancelVars, createVars, job2Vars, progVars,
      runVars, trainVars>>

\* The transport delivers the next n bytes as one chunk and the decoder
\* takes them in.
SseFeed(n) ==
    /\ sseState = "open"
    /\ n >= 1
    /\ ssePos + n <= Len(sseStream)
    /\ LET d == Decode(sseBuf, sseAcc, sseEvents,
                       SubSeq(sseStream, ssePos + 1, ssePos + n))
       IN  /\ sseBuf' = d.buf
           /\ sseAcc' = d.acc
           /\ sseEvents' = d.events
           /\ sseState' = IF d.done THEN "done" ELSE "open"
    /\ ssePos' = ssePos + n
    /\ UNCHANGED <<sseStream, nonSseVars>>

\* Faulty variant: at the end of the stream an accumulated event that has
\* both data and an event type is emitted.
SseEnd_emitsPartial ==
    /\ sseState = "open"
    /\ ssePos = Len(sseStream)
    /\ sseState' = "ended"
    /\ sseEvents' = IF sseAcc.event # << >> /\ sseAcc.data # << >>
                    THEN Append(sseEvents, MakeEvent(sseAcc)) ELSE sseEvents
    /\ sseBuf' = << >>
    /\ sseAcc' = EmptyAcc
    /\ UNCHANGED <<sseStream, ssePos, nonSseVars>>

\* The byte stream ends: what is buffered or accumulated is discarded and
\* the sequence of events ends.
SseEnd ==
    /\ sseState = "open"
    /\ ssePos = Len(sseStream)
    /\ sseState' = "ended"
    /\ sseBuf' = << >>
    /\ sseAcc' = EmptyAcc
    /\ UNCHANGED <<sseStream, ssePos, sseEvents, nonSseVars>>

\* The sizes the next chunk can have: up to MaxChunk bytes, or all the bytes
\* that are left.
ChunkSizes == (1..MaxChunk) \cup {Len(sseStream) - ssePos}

SseNext ==
    \/ (\E n \in ChunkSizes : SseFeed(n))
    \/ SseEnd

SseSpec == SseInit /\ [][SseNext]_vars

(* -------------------------------- run ---------------------------------- *)

\* Faulty variant: the model is looked up before the identifier is checked.
RunCall_resolvesFirst(ident) ==
    /\ pc = "idle"
    /\ srvStatus = "none"
    /\ runIdent' = ident
    /\ netReqs' = netReqs + 1
    /\ IF ParseIdentifier(ident).ok
       THEN /\ pc' = "run_resolved"
            /\ UNCHANGED raised
       ELSE /\ raised' = [kind |-> "ValueError", text |-> "identifier"]
            /\ pc' = "run_failed"
    /\ UNCHANGED <<srvVars, recVars, caller, schema, mode, iterVars, result,
                   cntVars, cancelReqs>>
    /\ UNCHANGED <<prevStatus, cancelVars, createVars, job2Vars, progVars, sseVars, trainVars>>

\* run(identifier, input): the identifier is parsed first; one that has
\* neither shape fails with the validation error.
RunCall(ident) ==
    /\ pc = "idle"
    /\ srvStatus = "none"
    /\ runIdent' = ident
    /\ IF ParseIdentifier(ident).ok
       THEN /\ pc' = "run_parsed"
            /\ UNCHANGED raised
       ELSE /\ raised' = [kind |-> "ValueError", text |-> "identifier"]
            /\ pc' = "run_failed"
    /\ UNCHANGED <<srvVars, recVars, caller, schema, mode, iterVars, result,
                   cntVars, cancelReqs, netReqs>>
    /\ UNCHANGED <<prevStatus, cancelVars, createVars, job2Vars, progVars, sseVars, trainVars>>

\* The identifier is resolved to a Version: one request to the transport.
RunResolve ==
    /\ pc = "run_parsed"
    /\ netReqs' = netReqs + 1
    /\ pc' = "run_resolved"
    /\ UNCHANGED <<srvVars, recVars, caller, schema, mode, iterVars, raised,
                   result, cntVars, cancelReqs, runIdent>>
    /\ UNCHANGED <<prevStatus, cancelVars, createVars, job2Vars, progVars, sseVars, trainVars>>

\* The job is created and the output mode selected, as Version.predict does
\* for a version whose schema is s.
RunPredict(s) ==
    /\ pc = "run_resolved"
    /\ srvStatus = "none"
    /\ netReqs' = netReqs + 1
    /\ CreateJob(SelfVersion, "plain", NoKw)
    /\ schema' = s
    /\ caller' = "predict"
    /\ reloads' = 0 /\ nonTermObs' = 0 /\ startStatus' = "starting"
    /\ IF SelectMode(s) = "incremental"
       THEN /\ mode' = "incremental"
            /\ pc' = "iter_ready"
            /\ UNCHANGED raised
       ELSE IF SelectMode(s) = "atomic"
       THEN /\ mode' = "atomic"
            /\ pc' = "wait_check"
            /\ UNCHANGED raised
       ELSE /\ mode' = "none"
            /\ raised' = [kind |-> SelectMode(s), text |-> None]
            /\ pc' = "predict_crashed"
    /\ UNCHANGED <<iterVars, result, cancelReqs, runIdent>>
    /\ UNCHANGED <<prevStatus, cancelVars, job2Vars, progVars, sseVars, trainVars>>

RunNext ==
    \/ (\E ident \in Identifiers : RunCall(ident))
    \/ RunResolve
    \/ (\E s \in Schemas : RunPredict(s))
    \/ ServerStep
    \/ WaitStep
    \/ IterStep
    \/ PredictFinish

RunSpec == Init /\ [][RunNext]_vars

(* ----------------------- trainings.create ------------------------------ *)

\* The call failed before any request: nothing sent, no record returned.
TrainingRaises(kind) ==
    /\ trRaised' = kind
    /\ trBody' = NoTrainBody
    /\ trStatus' = "none"

\* trainings.create(*pos, **kw): the version, the destination and the input
\* are read from the positional arguments, else from the keywords; each must
\* be given; the body is built; the version must match the pattern; then the
\* request is posted and the returned record prepared.
TrainingCreate(pos, kw) ==
    LET v == IF Len(pos) > 0 THEN pos[1] ELSE kw.version
        destination == IF Len(pos) > 1 THEN pos[2] ELSE kw.destination
        input == IF Len(pos) > 2 THEN pos[3] ELSE kw.input
        match == TrainVersionMatch(v.val)
    IN  /\ trArgs' = [called |-> TRUE, pos |-> pos, kw |-> kw]
        /\ IF v = TrNone THEN TrainingRaises("ValueError")
           ELSE IF destination = TrNone THEN TrainingRaises("ValueError")
           ELSE IF input = TrNone THEN TrainingRaises("ValueError")
           ELSE IF ~match.ok THEN TrainingRaises("ReplicateException")
           ELSE /\ trBody' = [sent |-> TRUE,
                              username |-> match.username,
                              model_name |-> match.model_name,
                              version_id |-> match.version_id,
                              input |-> EncodeJson(input),
                              destination |-> destination,
                              webhook |-> BodyOption(kw.webhook),
                              webhook_completed |-> BodyOption(kw.webhook_completed),
                              webhook_events_filter |->
                                  BodyOption(kw.webhook_events_filter)]
                /\ trRaised' = "none"
                /\ trStatus' = "starting"
        /\ UNCHANGED <<srvVars, recVars, pc, caller, schema, mode, iterVars, raised,
                       result, cntVars, cancelReqs, prevStatus, cancelVars,
                       createVars, job2Vars, progVars, sseVars, runVars>>

TrainNext == \E pos \in TrainPositional, kw \in TrainKeywords : TrainingCreate(pos, kw)

TrainSpec == Init /\ [][TrainNext]_vars

\* A consumer that keeps asking for the next element: the generator's code
\* always gets to run.
IterFairSpec == Spec /\ WF_vars(IterStep)

\* The polling loop of wait() always gets to run its next step: sleep and
\* reload return, and nothing else runs in the caller's thread.
FairSpec == Spec /\ WF_vars(WaitStep) /\ WF_vars(PredictFinish)

(* ------------------------------- claims -------------------------------- *)

\* Positions of the caller.
InWaitLoop == pc \in {"wait_check", "wait_sleep"}
WaitReturned == pc \in {"wait_done", "predict_after_wait", "predict_returned",
                        "predict_raised"}
IterEnded == pc \in {"iter_done", "iter_raised"}

\* C1: when output_iterator has ended, it has yielded every element of the
\* job's final output exactly once and in arrival order, whatever the output
\* length was when iteration began.
C1_YieldsWholeFinalOutput ==
    IterEnded => yielded = OrEmpty(srvOutput)

\* C2: when output_iterator fails on status failed, it carries the job's
\* error text and has first yielded every element that arrived after
\* iteration began, those of the failing reload included.
C2_FailedYieldsNewElementsFirst ==
    pc = "iter_raised" =>
        /\ raised = [kind |-> "ModelError", text |-> error]
        /\ yielded = SliceFrom(OrEmpty(output), startLen)

\* C3: when output_iterator observes succeeded or canceled, it yields the
\* elements appended since the previous cycle (those beyond previous_output)
\* and then ends normally, with no error raised; it ends with an error only
\* on failed.
C3_TerminalYieldsRestAndEnds ==
    /\ pc \in {"iter_final", "iter_done"} =>
        /\ status \in {"succeeded", "canceled"}
        /\ raised = NoRaise
        /\ SliceFrom(yielded \o new_output, Len(previous_output) - startLen)
              = SliceFrom(OrEmpty(output), Len(previous_output))
    /\ pc = "iter_done" => new_output = << >>
    /\ pc = "iter_raised" => status = "failed"

C3_Witness ==
    /\ pc = "iter_done"
    /\ status = "canceled"
    /\ startLen < Len(previous_output)
    /\ Len(previous_output) < Len(OrEmpty(output))

\* C4: whenever wait has returned, the status of the record is succeeded,
\* failed or canceled.
C4_WaitReturnsTerminal ==
    WaitReturned => status \in TerminalStates

C4_Witness ==
    /\ pc = "wait_done"
    /\ startStatus = "starting"
    /\ reloads > 1

\* C5: the loops of wait and output_iterator stand before a sleep and reload
\* only while the last observed status is non-terminal, a loop that started
\* on a terminal status has reloaded zero times, and the number of reloads
\* equals the number of non-terminal observations (one reload is still
\* pending right after such an observation).
C5_NoPollAfterTerminal ==
    /\ pc \in {"wait_sleep", "iter_yield", "iter_sleep"} =>
        /\ status \notin TerminalStates
        /\ nonTermObs = Count(reloads)
    /\ (pc \in {"wait_check", "iter_check", "iter_final"} \/ WaitReturned \/ IterEnded)
          => reloads = nonTermObs
    /\ ((InWaitLoop \/ WaitReturned \/ IterEnded
            \/ pc \in {"iter_check", "iter_yield", "iter_sleep", "iter_final"})
          /\ startStatus \in TerminalStates) => reloads = 0

C5_Witness ==
    /\ pc \in {"wait_done", "iter_done"}
    /\ reloads = 2
    /\ nonTermObs = 2

\* C6: wait has no bound on its polls.  Once the remote job is terminal a
\* running wait eventually returns; while the observed status is
\* non-terminal the loop always goes on to its next sleep and its next
\* reload; and wait leaves its loop only on a terminal status.
C6_WaitPollsUntilTerminal ==
    /\ (InWaitLoop /\ srvStatus \in TerminalStates) ~> WaitReturned
    /\ (pc = "wait_check" /\ status \notin TerminalStates) ~> (pc = "wait_sleep")
    /\ (pc = "wait_sleep") ~> (pc = "wait_check")
    /\ [][InWaitLoop /\ ~InWaitLoop' => status \in TerminalStates]_vars

C6_Witness ==
    /\ pc = "wait_done"
    /\ reloads = MaxPolls
    /\ nonTermObs = MaxPolls

\* The value of components.schemas.Output.type in a schema, "absent" when
\* any level of the path is missing.
DeclaredOutputType(s) ==
    IF ~s.isNone /\ s.components /\ s.schemas /\ s.Output THEN s.type ELSE "absent"

IterPositions == {"iter_ready", "iter_check", "iter_yield", "iter_sleep", "iter_final",
                  "iter_done", "iter_raised"}
WaitPositions == {"wait_check", "wait_sleep", "predict_after_wait",
                  "predict_returned", "predict_raised"}

\* C7: running a version consumes the output through output_iterator if and
\* only if the schema's components.schemas.Output.type is "array"; when the
\* Output entry declares any other type, or none, the output is consumed
\* through wait and read once.
C7_ModeByOutputType ==
    caller = "predict" =>
        /\ (mode = "incremental") <=> (DeclaredOutputType(schema) = "array")
        /\ (pc \in IterPositions) <=> (DeclaredOutputType(schema) = "array")
        /\ (schema.Output /\ schema.type # "array") =>
              (mode = "atomic" /\ pc \in WaitPositions)
        /\ pc = "predict_returned" => mode = "atomic"

C7_Witness ==
    /\ caller = "predict"
    /\ schema.Output /\ schema.type = "string"
    /\ mode = "atomic"
    /\ pc = "predict_returned"
    /\ ~result.none

\* C8: mode selection never fails on a missing or malformed schema: when the
\* schema or any level of components.schemas.Output.type is absent, running
\* the version raises no error and chooses atomic mode.
C8_MalformedSchemaIsAtomic ==
    (caller = "predict" /\ DeclaredOutputType(schema) = "absent") =>
        /\ raised.kind \notin {"KeyError", "TypeError"}
        /\ mode = "atomic"

\* C9: for an array-typed output the iterator is handed to the caller right
\* after the job is created: until the consumer asks for an element no
\* reload and no loop test has happened and the record is still the
\* creation response.
C9_IteratorReturnedAtOnce ==
    (caller = "predict" /\ pc = "iter_ready") =>
        /\ mode = "incremental"
        /\ reloads = 0 /\ nonTermObs = 0
        /\ status = "starting" /\ output = NoneOut
        /\ yielded = << >>

C9_Witness ==
    /\ caller = "predict"
    /\ pc = "iter_ready"
    /\ srvStatus = "starting"
    /\ schema.type = "array"

\* C10: for a non-array output, running the version returns or fails only on
\* a terminal status: on failed it raises ModelError carrying the job's
\* error, on succeeded or canceled it returns the output loaded together with
\* that terminal status, which is the job's final output.
C10_AtomicRunResult ==
    /\ pc = "predict_returned" =>
        /\ mode = "atomic"
        /\ status \in {"succeeded", "canceled"}
        /\ raised = NoRaise
        /\ result = output
        /\ result = srvOutput
    /\ pc = "predict_raised" =>
        /\ mode = "atomic"
        /\ status = "failed"
        /\ raised = [kind |-> "ModelError", text |-> srvError]
        /\ srvError \in ErrTexts

C10_Witness ==
    /\ pc = "predict_raised"
    /\ raised.kind = "ModelError"
    /\ reloads > 0
    /\ ~srvOutput.none

\* C11: ModelError has been raised only where the most recently observed
\* status is failed, and it carries the error text of that job, which is the
\* error the remote job failed with.
C11_ModelErrorOnlyOnFailed ==
    raised.kind = "ModelError" =>
        /\ pc \in {"iter_raised", "predict_raised"}
        /\ status = "failed"
        /\ srvStatus = "failed"
        /\ raised.text = error
        /\ raised.text = srvError

C11_Witness ==
    /\ pc = "iter_raised"
    /\ raised = [kind |-> "ModelError", text |-> "e2"]
    /\ yielded # << >>

\* C12: once the record has held a terminal status, a later refresh of the
\* record returns the same status.
C12_TerminalAbsorbing ==
    prevStatus \in TerminalStates => status = prevStatus

C12_Witness ==
    /\ pc = "held"
    /\ prevStatus = "failed"
    /\ status = "failed"
    /\ cancelReqs = 1

\* The transitions of the job state machine.
LifecycleEdges ==
    {<<"starting", "processing">>, <<"processing", "succeeded">>,
     <<"processing", "failed">>, <<"processing", "canceled">>,
     <<"starting", "canceled">>}

\* C13 as stated: every change of status between two successive observations
\* of the job is one transition of the job state machine.
C13_ObservedChangesAreEdges ==
    (prevStatus # "none" /\ status # prevStatus) =>
        <<prevStatus, status>> \in LifecycleEdges

\* C13 as amended: every change of status between two successive
\* observations goes forward along the job state machine by one transition
\* or by two (starting observed, then succeeded or failed, when no poll fell
\* into processing); never backward and never out of a terminal status.
C13_ObservedChangesGoForward ==
    (prevStatus # "none" /\ status # prevStatus) =>
        <<prevStatus, status>> \in
            LifecycleEdges \cup {<<"starting", "succeeded">>, <<"starting", "failed">>}

C13_Witness ==
    /\ prevStatus = "starting"
    /\ status = "failed"
    /\ pc = "wait_check"

\* C16: every call of cancel issues exactly one cancellation request, for
\* the job's own id; the call raises nothing and leaves the local record as
\* it was, whatever the status of the job.
C16_CancelOneRequestRecordUntouched ==
    /\ [](/\ cancelReqs = cancelCalls
          /\ (cancelCalls > 0 => lastCancelId = JobId))
    /\ [][cancelCalls' # cancelCalls =>
            /\ cancelReqs' = cancelReqs + 1
            /\ UNCHANGED <<status, output, error, raised, pc>>]_vars

C16_Witness ==
    /\ cancelCalls = 1
    /\ cancelReqs = 1
    /\ status = "succeeded"
    /\ srvStatus = "succeeded"
    /\ raised = NoRaise

\* C20: without an explicit call of cancel no cancellation request is sent
\* and the remote job is not canceled, also after a wait or an iterator was
\* abandoned.
C20_NoCancelWithoutCall ==
    cancelCalls = 0 => (cancelReqs = 0 /\ srvStatus # "canceled" /\ status # "canceled")

C20_Witness ==
    /\ pc = "abandoned"
    /\ caller = "predict"
    /\ mode = "incremental"
    /\ yielded # << >>
    /\ cancelCalls = 0
    /\ srvStatus = "succeeded"

\* C14: predictions.create called without a version or without an input
\* fails with a ValueError and has sent no request: no body was built and no
\* remote job exists.
C14_CreateValidatesBeforeRequest ==
    (args.called /\ (args.version.kind = "none" \/ args.input = None)) =>
        /\ raised.kind = "ValueError"
        /\ pc = "create_failed"
        /\ ~body.sent
        /\ srvStatus = "none"
        /\ status = "none"

C14_Witness ==
    /\ args.called
    /\ args.version.kind = "obj"
    /\ args.input = None
    /\ args.stream = "True"
    /\ raised = [kind |-> "ValueError", text |-> "input"]

\* C15: the prediction predictions.create returns has as its version the
\* Version object the caller passed, and no version when the caller passed a
\* version id string; the version id of the server's response is never the
\* field.
C15_VersionFromCaller ==
    [][(~body.sent /\ body'.sent) =>
          /\ version' = (IF args'.version.kind = "obj" THEN args'.version ELSE NoVersion)
          /\ version'.kind # "str"]_vars

C15_Witness ==
    /\ body.sent
    /\ pc = "held"
    /\ args.version = [kind |-> "obj", id |-> "v2"]
    /\ version = [kind |-> "obj", id |-> "v2"]
    /\ body.version = "v2"

\* The lines of a log text that match the progress-bar pattern, by position.
MatchingLines(text) ==
    {i \in 1..Len(Split(text)) : Matches(Strip(Split(text)[i]))}

\* C17: what prediction.progress returns depends on the log text alone: the
\* percentage (the integer over 100), current and total of the last line
\* that matches the progress-bar pattern, and None when no line matches or
\* the logs are empty or None; a second read returns the same value.
C17_ProgressFromLastMatchingLine ==
    progress.reads > 0 =>
        /\ progress.raises = "none"
        /\ IF logs.none \/ logs.text = << >> \/ MatchingLines(logs.text) = {}
           THEN progress.none
           ELSE LET last == CHOOSE i \in MatchingLines(logs.text) :
                                \A k \in MatchingLines(logs.text) : k <= i
                    g == Groups(Strip(Split(logs.text)[last]))
                IN  /\ ~progress.none
                    /\ progress.percentage = <<g.percentage, 100>>
                    /\ progress.current = g.current
                    /\ progress.total = g.total

C17_Witness ==
    /\ progress.reads = 2
    /\ logs.text = JoinLines(<<LineZero, LineIndented, LineSeed>>)
    /\ ~progress.none
    /\ progress.percentage = <<20, 100>>
    /\ progress.current = 1
    /\ progress.total = 5

\* C18: every Progress value the parser returns has 0 <= percentage <= 1 and
\* 0 <= current <= total.
C18_ProgressWithinBounds ==
    (progress.reads > 0 /\ ~progress.none) =>
        /\ 0 <= progress.percentage[1]
        /\ progress.percentage[1] <= progress.percentage[2]
        /\ 0 <= progress.current
        /\ progress.current <= progress.total

\* The elements the first and the second job produce.
Job1Elems == 1..MaxOut

Job2Elems == {Elem2(k) : k \in 1..MaxOut2}

\* C19: two jobs resolved by interleaved loops are independent: what the
\* first caller has been given is, in order, a run of its own job's output;
\* the second caller's wait() returns with its own job's final status and
\* output; neither record ever holds an element of the other job; and a
\* step that refreshes one record leaves the other record unchanged.
C19_JobsIndependent ==
    /\ [](/\ yielded = SubSeq(OrEmpty(srvOutput), startLen + 1, startLen + Len(yielded))
          /\ \A i \in 1..Len(OrEmpty(output)) : OrEmpty(output)[i] \in Job1Elems
          /\ \A i \in 1..Len(OrEmpty(output2)) : OrEmpty(output2)[i] \in Job2Elems
          /\ (pc = "iter_done" => /\ status = srvStatus
                                  /\ yielded = SliceFrom(OrEmpty(srvOutput), startLen))
          /\ (pc2 = "wait_done" => /\ IsTerminal(status2)
                                   /\ status2 = srv2Status
                                   /\ output2 = srv2Output))
    /\ [][/\ (<<status2, output2>>' # <<status2, output2>> => UNCHANGED <<recVars, iterVars, pc>>)
          /\ (recVars' # recVars => UNCHANGED <<status2, output2, pc2>>)]_vars

C19_Witness ==
    /\ pc = "iter_done"
    /\ Len(yielded) = MaxOut
    /\ pc2 = "wait_done"
    /\ status2 = "failed"
    /\ Len(OrEmpty(output2)) = MaxOut2

\* C21: output_iterator is lazy, finite and non-restartable: obtaining the
\* iterator and holding it unconsumed reloads nothing and yields nothing;
\* once the job is terminal a consumer that keeps asking reaches the end of
\* the sequence, which never holds more elements than the job's output; and
\* after the end (normal or by ModelError) nothing more is yielded or
\* reloaded.
C21_LazyFiniteNotRestartable ==
    /\ [][(pc \in {"held", "iter_ready"} /\ pc' = "iter_ready")
              => UNCHANGED <<recVars, reloads, yielded, prevStatus>>]_vars
    /\ [](Len(yielded) <= Len(OrEmpty(srvOutput)))
    /\ ((pc \in {"iter_ready", "iter_check", "iter_yield", "iter_sleep", "iter_final"}
            /\ IsTerminal(srvStatus)) ~> IterEnded)
    /\ [][IterEnded => UNCHANGED <<pc, recVars, iterVars, reloads, raised>>]_vars

C21_Witness ==
    /\ pc = "iter_done"
    /\ caller = "user"
    /\ reloads >= 2
    /\ Len(yielded) = MaxOut

\* C28: the body of the creation request holds each of the options webhook,
\* webhook_completed, webhook_events_filter and stream exactly when the
\* caller gave a value other than None for it, with that value, and always
\* holds the version id and the encoded input.
C28_BodyHoldsGivenOptions ==
    body.sent =>
        /\ body.webhook = (IF args.webhook = None THEN "absent" ELSE args.webhook)
        /\ body.webhook_completed =
              (IF args.webhook_completed = None THEN "absent" ELSE args.webhook_completed)
        /\ body.webhook_events_filter =
              (IF args.webhook_events_filter = None THEN "absent"
               ELSE args.webhook_events_filter)
        /\ body.stream = (IF args.stream = None THEN "absent" ELSE args.stream)
        /\ body.version = args.version.id
        /\ body.version # None
        /\ body.input = (IF args.input = "file" THEN "data-uri" ELSE "plain")

C28_Witness ==
    /\ body.sent
    /\ args.stream = "False" /\ body.stream = "False"
    /\ args.webhook = None /\ body.webhook = "absent"
    /\ args.webhook_completed = "https://done" /\ body.webhook_completed = "https://done"
    /\ args.input = "file"

\* C29: each cycle of output_iterator is yield the new suffix, then sleep,
\* then reload, then test the status again: when the cycle goes on to its
\* sleep and when the reload is performed, every element of the output
\* observed at the start of the cycle has been yielded to the consumer, in
\* order, and none is pending; the loop test is followed by the yields and
\* the yields by the sleep and the reload.
C29_YieldBeforeSleepAndReload ==
    /\ [][(pc = "iter_yield" /\ pc' # "iter_yield") =>
             /\ new_output = << >>
             /\ yielded = cur_output.items
             /\ pc' = "iter_sleep"
             /\ UNCHANGED <<recVars, reloads>>]_vars
    /\ [][(pc = "iter_sleep" /\ pc' # "iter_sleep") =>
             /\ new_output = << >>
             /\ yielded = cur_output.items
             /\ pc' = "iter_check"
             /\ reloads' = Count(reloads)
             /\ status' = srvStatus /\ output' = srvOutput]_vars
    /\ [][(pc = "iter_check" /\ pc' = "iter_yield") =>
             /\ ~IsTerminal(status)
             /\ cur_output' = LocalList(OrEmpty(output))]_vars
    /\ [][(pc = "iter_yield" /\ yielded' # yielded) => UNCHANGED <<recVars, reloads>>]_vars

\* C30: wait and output_iterator take every status other than succeeded,
\* failed and canceled as non-terminal, "running" included: on such a status
\* the loop test goes on to sleep and reload, nothing is raised, and neither
\* loop is left while the record holds it.
C30_UnknownStatusKeepsPolling ==
    /\ [][(pc = "wait_check" /\ status \notin {"succeeded", "failed", "canceled"}
              /\ pc' # pc) => (pc' = "wait_sleep" /\ raised' = raised)]_vars
    /\ [][(pc = "iter_check" /\ status \notin {"succeeded", "failed", "canceled"}
              /\ pc' # pc) => (pc' = "iter_yield" /\ raised' = raised)]_vars
    /\ []((WaitReturned \/ pc \in {"iter_final", "iter_done", "iter_raised"})
              => status \in {"succeeded", "failed", "canceled"})
    /\ [](raised.kind = "ModelError" => status = "failed")

C30_Witness ==
    /\ status = "running"
    /\ pc \in {"wait_sleep", "iter_yield", "iter_sleep"}
    /\ reloads >= 2

\* The bytes delivered so far.
Delivered == SubSeq(sseStream, 1, ssePos)

\* C22: SSE decoding does not depend on the chunking: however the bytes
\* delivered so far were split into chunks, inside a data line too, the
\* events produced are those of decoding the same bytes as one chunk.
C22_ChunkingInvariant ==
    sseEvents = Decode(<< >>, EmptyAcc, << >>, Delivered).events

C22_Witness ==
    /\ sseStream = Concat(<<BlockOutput, BlockMessage, BlockDone>>)
    /\ sseBuf = <<"d", "a", "t">>
    /\ sseAcc.hasId
    /\ Len(sseEvents) = 1

\* The positions of the newlines that end a blank line of a text.
BlankEnds(text) ==
    {i \in 1..Len(text) : text[i] = "\n" /\ (i = 1 \/ text[i - 1] = "\n")}

RECURSIVE ApplyAll(_, _)
ApplyAll(acc, lines) ==
    IF lines = << >> THEN acc ELSE ApplyAll(ApplyLine(acc, Head(lines)), Tail(lines))

\* The event of the lines between the blank line that ends at i and the
\* blank line before it.
BlockEvent(text, i) ==
    LET prev == {j \in BlankEnds(text) : j < i}
        start == IF prev = {} THEN 1
                 ELSE 1 + (CHOOSE j \in prev : \A x \in prev : x <= j)
    IN  MakeEvent(ApplyAll(EmptyAcc, CompleteLines(SubSeq(text, start, i - 1))))

\* C23: one event is emitted per blank line, in stream order, each built
\* from the lines since the previous blank line alone, so that no field of
\* one event appears in the next.
C23_OneEventPerBlankLine ==
    LET B == BlankEnds(Delivered)
    IN  /\ Len(sseEvents) <= Cardinality(B)
        /\ sseState # "done" => Len(sseEvents) = Cardinality(B)
        /\ \A i \in B :
              LET k == Cardinality({j \in B : j <= i})
              IN  k <= Len(sseEvents) => sseEvents[k] = BlockEvent(Delivered, i)

C23_Witness ==
    /\ sseStream = Concat(<<BlockMessage, BlockOutput>>)
    /\ sseState = "ended"
    /\ Len(sseEvents) = 2
    /\ sseEvents[1].hasId /\ sseEvents[1].event = TypeMessage
    /\ ~sseEvents[2].hasId /\ sseEvents[2].event = TypeOutput

\* C24: when the byte stream ends with an event partly accumulated and no
\* blank line closing it, nothing is emitted for the remainder and no error
\* is raised: the events are those of the blank lines of the stream.
C24_TrailingPartialDropped ==
    /\ [][(sseState = "open" /\ sseState' = "ended") =>
             (sseEvents' = sseEvents /\ raised' = raised)]_vars
    /\ [](sseState = "ended" =>
             /\ raised = NoRaise
             /\ Len(sseEvents) = Cardinality(BlankEnds(sseStream)))

C24_Witness ==
    /\ sseStream = Concat(<<BlockOutput, BlockOpen, BlockPartial>>)
    /\ sseState = "ended"
    /\ Len(sseEvents) = 1
    /\ raised = NoRaise

\* C25: the sequence of events ends at the end of the byte stream or at a
\* done event, whichever is first: a done event is the last event, nothing
\* is decoded or delivered once the sequence has ended, and the stream of a
\* job that runs to completion delivers an output event and the done event.
C25_EndsAtDoneOrEndOfStream ==
    /\ [](\A k \in 1..Len(sseEvents) :
             sseEvents[k].event = TypeDone => (k = Len(sseEvents) /\ sseState = "done"))
    /\ [](sseState = "done" => sseEvents[Len(sseEvents)].event = TypeDone)
    /\ [](sseState = "ended" => ssePos = Len(sseStream))
    /\ [][(sseState \in {"done", "ended"}) => (sseVars' = sseVars)]_vars
    /\ []((sseStream \in CompletedJobStreams /\ sseState \in {"done", "ended"}) =>
             /\ sseState = "done"
             /\ \E k \in 1..Len(sseEvents) : sseEvents[k].event = TypeOutput)

C25_Witness ==
    /\ sseStream = Concat(<<BlockOutput, BlockDone, BlockOutput>>)
    /\ sseState = "done"
    /\ ssePos < Len(sseStream)
    /\ Len(sseEvents) = 2

\* The identifier has the shape owner/name or owner/name:version: a "/"
\* preceded by an owner without "/", followed by a name without "/" or ":",
\* then nothing more or ":" and a version.
HasRunShape(s) ==
    \E i \in 2..Len(s) :
        /\ s[i] = "/"
        /\ \A k \in 1..(i - 1) : s[k] # "/"
        /\ \E j \in (i + 1)..Len(s) :
              /\ \A k \in (i + 1)..j : s[k] \notin {"/", ":"}
              /\ j = Len(s) \/ (s[j + 1] = ":" /\ j + 1 < Len(s))

\* C26: run called with an identifier that is neither owner/name nor
\* owner/name:version fails with the validation error before any request is
\* made and before any job is created.
C26_InvalidIdentifierFailsLocally ==
    (runIdent # NoIdent /\ ~HasRunShape(runIdent)) =>
        /\ raised = [kind |-> "ValueError", text |-> "identifier"]
        /\ pc = "run_failed"
        /\ netReqs = 0
        /\ ~body.sent
        /\ srvStatus = "none"

C26_Witness ==
    /\ runIdent = IdentInvalid
    /\ pc = "run_failed"
    /\ raised.kind = "ValueError"
    /\ netReqs = 0

\* C32: when the output only grows by appending and the job does not end as
\* failed, the whole sequence output_iterator has yielded at its end is the
\* final output without its first n elements, n being the length of the
\* output when iteration began: the elements present then are never yielded,
\* the later ones once each, in order.
C32_YieldsFinalOutputLessInitial ==
    /\ pc = "iter_done" =>
          /\ status \in {"succeeded", "canceled"}
          /\ OrEmpty(output) = OrEmpty(srvOutput)
          /\ yielded = SliceFrom(OrEmpty(srvOutput), startLen)
          /\ Len(yielded) = Len(OrEmpty(srvOutput)) - startLen
    /\ pc \in {"iter_check", "iter_yield", "iter_sleep", "iter_final", "iter_done"} =>
          \A i \in 1..Len(yielded) : yielded[i] = startLen + i

C32_Witness ==
    /\ pc = "iter_done"
    /\ startLen = 1
    /\ yielded = <<2, 3>>
    /\ status = "succeeded"

\* What a call names under the declared order (version, input, destination).
DeclaredVersion ==
    IF Len(trArgs.pos) > 0 THEN trArgs.pos[1] ELSE trArgs.kw.version
DeclaredInput ==
    IF Len(trArgs.pos) > 1 THEN trArgs.pos[2] ELSE trArgs.kw.input
DeclaredDestination ==
    IF Len(trArgs.pos) > 2 THEN trArgs.pos[3] ELSE trArgs.kw.destination

\* C31: trainings.create reads its positional arguments in the declared order
\* (version, input, destination), so the second positional argument is sent as
\* the training input and the third as the destination; and when the version,
\* the destination or the input is missing, or the version is not of the form
\* username/model_name:version_id, the call fails without sending a request.
C31_DeclaredOrderAndLocalFailure ==
    trArgs.called =>
        /\ (Len(trArgs.pos) = 3 /\ trBody.sent) =>
              /\ trBody.input = EncodeJson(trArgs.pos[2])
              /\ trBody.destination = trArgs.pos[3]
        /\ (\/ DeclaredVersion = TrNone
            \/ DeclaredInput = TrNone
            \/ DeclaredDestination = TrNone
            \/ ~TrainVersionMatch(DeclaredVersion.val).ok) =>
              /\ ~trBody.sent
              /\ trRaised # "none"

====
